---- MODULE Spec2Model ----
(***************************************************************************)
(* End-point scaling of saturation functions, after                        *)
(* opm/utility/ECLEndPointScaling.cpp.                                     *)
(*                                                                         *)
(* A C++ double is a triple <<n, d, e>>.  With d > 0 it is the finite      *)
(* number (n/d) * 10^(20*e), n/d in lowest terms, zero being <<0, 1, 0>>.  *)
(* With d = 0 it is an IEEE special: <<0,0,0>> is NaN, <<1,0,0>> is +inf   *)
(* and <<-1,0,0>> is -inf.  The exponent class e lets the model hold the   *)
(* magnitudes around the sentinel 1.0e+20 in TLC's 32 bit integers.        *)
(* Arithmetic on finite values is exact: the rounding of the binary64      *)
(* format is not modelled, nor is the sign of zero.                        *)
(***************************************************************************)
EXTENDS Integers, Sequences, FiniteSets

\* ---------------------------------------------------------------------
\* double
\* ---------------------------------------------------------------------

RECURSIVE GCD(_, _)
GCD(a, b) == IF b = 0 THEN a ELSE GCD(b, a % b)

AbsInt(i) == IF i < 0 THEN -i ELSE i

SignInt(i) == IF i < 0 THEN -1 ELSE IF i > 0 THEN 1 ELSE 0

\* The double (n/d) * 10^(20*e), d # 0, in normal form.
Norm(n, d, e) ==
    IF n = 0 THEN <<0, 1, 0>>
    ELSE LET g == GCD(AbsInt(n), AbsInt(d))
             s == SignInt(d)
         IN  <<(s * n) \div g, (s * d) \div g, e>>

R(n, d) == Norm(n, d, 0)

NaN    == <<0, 0, 0>>
PosInf == <<1, 0, 0>>
NegInf == <<-1, 0, 0>>
Zero   == <<0, 1, 0>>
One    == <<1, 1, 0>>

IsNaN(a)    == a[2] = 0 /\ a[1] = 0
IsInf(a)    == a[2] = 0 /\ a[1] # 0
IsFinite(a) == a[2] # 0
Sgn(a)      == SignInt(a[1])

\* a < b on doubles; false when either side is NaN.
Lt(a, b) ==
    IF IsNaN(a) \/ IsNaN(b) THEN FALSE
    ELSE IF IsInf(a) \/ IsInf(b)
         THEN \/ (a = NegInf /\ b # NegInf)
              \/ (b = PosInf /\ a # PosInf)
    ELSE IF Sgn(a) # Sgn(b) THEN Sgn(a) < Sgn(b)
    ELSE IF Sgn(a) = 0 THEN FALSE
    ELSE IF a[3] # b[3]
         THEN IF Sgn(a) > 0 THEN a[3] < b[3] ELSE a[3] > b[3]
    ELSE a[1] * b[2] < b[1] * a[2]

Gt(a, b) == Lt(b, a)

Neg(a) == IF IsNaN(a) THEN NaN ELSE <<-a[1], a[2], a[3]>>

\* std::abs
Abs(a) == IF a[1] < 0 THEN Neg(a) ELSE a

Add(a, b) ==
    IF IsNaN(a) \/ IsNaN(b) THEN NaN
    ELSE IF IsInf(a) /\ IsInf(b) THEN (IF a = b THEN a ELSE NaN)
    ELSE IF IsInf(a) THEN a
    ELSE IF IsInf(b) THEN b
    ELSE IF Sgn(a) = 0 THEN b
    ELSE IF Sgn(b) = 0 THEN a
    ELSE IF a[3] > b[3] THEN a
    ELSE IF b[3] > a[3] THEN b
    ELSE Norm(a[1] * b[2] + b[1] * a[2], a[2] * b[2], a[3])

Sub(a, b) == Add(a, Neg(b))

Mul(a, b) ==
    IF IsNaN(a) \/ IsNaN(b) THEN NaN
    ELSE IF IsInf(a) \/ IsInf(b)
         THEN IF Sgn(a) * Sgn(b) = 0 THEN NaN
              ELSE <<Sgn(a) * Sgn(b), 0, 0>>
    ELSE Norm(a[1] * b[1], a[2] * b[2], a[3] + b[3])

Div(a, b) ==
    IF IsNaN(a) \/ IsNaN(b) THEN NaN
    ELSE IF IsInf(a) /\ IsInf(b) THEN NaN
    ELSE IF IsInf(a) THEN (IF Sgn(b) < 0 THEN Neg(a) ELSE a)
    ELSE IF IsInf(b) THEN Zero
    ELSE IF Sgn(b) = 0
         THEN IF Sgn(a) = 0 THEN NaN ELSE <<Sgn(a), 0, 0>>
    ELSE Norm(a[1] * b[2], a[2] * b[1], a[3] - b[3])

\* ---------------------------------------------------------------------
\* State: one scaling object and the last call made on it
\* ---------------------------------------------------------------------

VARIABLES
    kind,            \* the object's class: "none", "TwoPoint", "ThreePoint",
                     \* "PureVertical" or "CritSatVertical"
    smin_,           \* Impl::smin_,  one double per cell
    sdisp_,          \* ThreePointScaling::Impl::sdisp_ and
                     \* CritSatVerticalScaling::Impl::sdisp_ (else empty)
    smax_,           \* Impl::smax_
    fdisp_,          \* CritSatVerticalScaling::Impl::fdisp_
    fmax_,           \* PureVerticalScaling::Impl::fmax_ and
                     \* CritSatVerticalScaling::Impl::fmax_
    handle_invalid_, \* Impl::handle_invalid_
    thrown,          \* what the last constructor call threw, or "none"
    op,              \* the last call: "none", "eval", "reverse" or "vertScale"
    tep,             \* its TableEndPoints argument
    sp,              \* its SaturationPoints argument
    ret,             \* the vector it returned
    chain,           \* "none", or how sp was made from the call before
    orig,            \* the SaturationPoints of the call before, when chained
    f,               \* the FunctionValues argument of vertScale
    val,             \* the values argument of vertScale
    ndebug,          \* whether vertScale ran in a build that defines NDEBUG
    ended,           \* how vertScale ended: "none", "returned", "assertion"
                     \* or "undefined"
    opt,             \* the EPSOptions argument of the last factory call
    init,            \* the per-cell arrays of the INIT file it was given
    ep,              \* its RawTableEndPoints argument
    made,            \* what the last factory call did and returned
    other,           \* a second object: the target or source of a copy,
                     \* move, assignment or clone
    threads          \* the calls that run concurrently on the object

vars == <<kind, smin_, sdisp_, smax_, fdisp_, fmax_, handle_invalid_, thrown,
          op, tep, sp, ret, chain, orig, f, val, ndebug, ended,
          opt, init, ep, made, other, threads>>

object == <<kind, smin_, sdisp_, smax_, handle_invalid_>>
call   == <<op, tep, sp, ret, chain, orig>>

\* What only the vertical scaling classes and their calls use.
vertical == <<fdisp_, fmax_, f, val, ndebug, ended>>

\* What only the factory functions use.
factory == <<opt, init, ep, made>>

\* What the constructors and the calls of one object leave alone.
extra == <<factory, other, threads>>

\* enum EPSEvalInterface::InvalidEndpointBehaviour
InvalidEndpointBehaviour == {"UseUnscaled", "IgnorePoint"}

\* ---------------------------------------------------------------------
\* Helpers of the anonymous namespace
\* ---------------------------------------------------------------------

\* The literal 1.0e+20 of defaultedScaledSaturation.
Sentinel == <<1, 1, 1>>

\* Mutant: the sentinel magnitude itself is taken as a set value.
defaultedScaledSaturation_Inclusive(s, dflt) ==
    IF Gt(Abs(s), Sentinel) THEN dflt ELSE s

defaultedScaledSaturation(s, dflt) ==
    IF Lt(Abs(s), Sentinel) THEN s ELSE dflt

validSaturation(s) == (~ Lt(s, Zero)) /\ (~ Gt(s, One))

RECURSIVE accumulateValid(_, _, _)
accumulateValid(sats, i, result) ==
    IF i > Len(sats) THEN result
    ELSE accumulateValid(sats, i + 1, result /\ validSaturation(sats[i]))

validSaturations(sats) == accumulateValid(sats, 1, TRUE)

\* ---------------------------------------------------------------------
\* class TwoPointScaling::Impl
\* ---------------------------------------------------------------------

TwoPoint_sMin(cell, t) == defaultedScaledSaturation(smin_[cell + 1], t.low)

TwoPoint_sMax(cell, t) == defaultedScaledSaturation(smax_[cell + 1], t.high)

\* Mutant: an invalid end point always gives NaN.
TwoPoint_handleInvalidEndpoint_NaN(pt, effsat) == Append(effsat, NaN)

\* Mutant: IgnorePoint leaves the point out of the result.
TwoPoint_handleInvalidEndpoint_Drop(pt, effsat) ==
    IF handle_invalid_ = "UseUnscaled" THEN Append(effsat, pt.sat) ELSE effsat

TwoPoint_handleInvalidEndpoint(pt, effsat) ==
    IF handle_invalid_ = "UseUnscaled" THEN Append(effsat, pt.sat)
    ELSE IF handle_invalid_ = "IgnorePoint" THEN Append(effsat, NaN)
    ELSE effsat

\* Mutant: the upper clamp is tested before the lower one.
TwoPoint_evalPoint_UpperFirst(t, srng, eval_pt, sLO, sHI) ==
    IF ~ Lt(eval_pt.sat, sHI) THEN t.high
    ELSE IF ~ Gt(eval_pt.sat, sLO) THEN t.low
    ELSE Add(t.low, Mul(Div(Sub(eval_pt.sat, sLO), Sub(sHI, sLO)), srng))

\* Mutant: the interpolated value is not offset by tep.low.
TwoPoint_evalPoint_NoOffset(t, srng, eval_pt, sLO, sHI) ==
    IF ~ Gt(eval_pt.sat, sLO) THEN t.low
    ELSE IF ~ Lt(eval_pt.sat, sHI) THEN t.high
    ELSE Mul(Div(Sub(eval_pt.sat, sLO), Sub(sHI, sLO)), srng)

\* The branch of eval's loop body that fills s_eff.
TwoPoint_evalPoint_Extrapolate(t, srng, eval_pt, sLO, sHI) ==
    IF ~ Gt(eval_pt.sat, sLO) THEN t.low
    ELSE Add(t.low, Mul(Div(Sub(eval_pt.sat, sLO), Sub(sHI, sLO)), srng))

TwoPoint_evalPoint(t, srng, eval_pt, sLO, sHI) ==
    IF ~ Gt(eval_pt.sat, sLO) THEN t.low
    ELSE IF ~ Lt(eval_pt.sat, sHI) THEN t.high
    ELSE LET scaled_sat ==
                 Mul(Div(Sub(eval_pt.sat, sLO), Sub(sHI, sLO)), srng)
         IN  Add(t.low, scaled_sat)

RECURSIVE TwoPoint_evalLoop(_, _, _, _, _)
TwoPoint_evalLoop(t, srng, pts, i, effsat) ==
    IF i > Len(pts) THEN effsat
    ELSE LET eval_pt == pts[i]
             cell    == eval_pt.cell
             sLO     == TwoPoint_sMin(cell, t)
             sHI     == TwoPoint_sMax(cell, t)
         IN  IF ~ validSaturations(<<sLO, sHI>>)
             THEN TwoPoint_evalLoop(t, srng, pts, i + 1,
                      TwoPoint_handleInvalidEndpoint(eval_pt, effsat))
             ELSE TwoPoint_evalLoop(t, srng, pts, i + 1,
                      Append(effsat,
                             TwoPoint_evalPoint(t, srng, eval_pt, sLO, sHI)))

TwoPoint_eval(t, pts) ==
    TwoPoint_evalLoop(t, Sub(t.high, t.low), pts, 1, <<>>)

\* Mutant: the table saturation is not divided by the table's range.
TwoPoint_reversePoint_NoRange(t, srng, eval_pt, sLO, sHI) ==
    IF ~ Gt(eval_pt.sat, t.low) THEN sLO
    ELSE IF ~ Lt(eval_pt.sat, t.high) THEN sHI
    ELSE Add(sLO, Mul(Sub(eval_pt.sat, t.low), Sub(sHI, sLO)))

\* Mutant: the upper clamp of reverse is tested before the lower one.
TwoPoint_reversePoint_UpperFirst(t, srng, eval_pt, sLO, sHI) ==
    IF ~ Lt(eval_pt.sat, t.high) THEN sHI
    ELSE IF ~ Gt(eval_pt.sat, t.low) THEN sLO
    ELSE Add(sLO, Mul(Div(Sub(eval_pt.sat, t.low), srng), Sub(sHI, sLO)))

\* The branch of reverse's loop body that fills s_unsc.
TwoPoint_reversePoint(t, srng, eval_pt, sLO, sHI) ==
    IF ~ Gt(eval_pt.sat, t.low) THEN sLO
    ELSE IF ~ Lt(eval_pt.sat, t.high) THEN sHI
    ELSE LET tt == Div(Sub(eval_pt.sat, t.low), srng)
         IN  Add(sLO, Mul(tt, Sub(sHI, sLO)))

RECURSIVE TwoPoint_reverseLoop(_, _, _, _, _)
TwoPoint_reverseLoop(t, srng, pts, i, unscaledsat) ==
    IF i > Len(pts) THEN unscaledsat
    ELSE LET eval_pt == pts[i]
             cell    == eval_pt.cell
             sLO     == TwoPoint_sMin(cell, t)
             sHI     == TwoPoint_sMax(cell, t)
         IN  IF ~ validSaturations(<<sLO, sHI>>)
             THEN TwoPoint_reverseLoop(t, srng, pts, i + 1,
                      TwoPoint_handleInvalidEndpoint(eval_pt, unscaledsat))
             ELSE TwoPoint_reverseLoop(t, srng, pts, i + 1,
                      Append(unscaledsat,
                             TwoPoint_reversePoint(t, srng, eval_pt, sLO, sHI)))

TwoPoint_reverse(t, pts) ==
    TwoPoint_reverseLoop(t, Sub(t.high, t.low), pts, 1, <<>>)

\* ---------------------------------------------------------------------
\* class ThreePointScaling::Impl
\* ---------------------------------------------------------------------

ThreePoint_sMin(cell, t) == defaultedScaledSaturation(smin_[cell + 1], t.low)

ThreePoint_sDisp_TableLow(cell, t) ==
    defaultedScaledSaturation(sdisp_[cell + 1], t.low)

ThreePoint_sDisp(cell, t) == defaultedScaledSaturation(sdisp_[cell + 1], t.disp)

ThreePoint_sMax(cell, t) == defaultedScaledSaturation(smax_[cell + 1], t.high)

\* Mutant: an invalid end point always gives the unscaled saturation.
ThreePoint_handleInvalidEndpoint_Unscaled(pt, effsat) == Append(effsat, pt.sat)

ThreePoint_handleInvalidEndpoint(pt, effsat) ==
    IF handle_invalid_ = "UseUnscaled" THEN Append(effsat, pt.sat)
    ELSE IF handle_invalid_ = "IgnorePoint" THEN Append(effsat, NaN)
    ELSE effsat

\* Mutant: the lower sub-interval is mapped onto [tep.low, tep.high].
ThreePoint_evalPoint_WholeTable(t, eval_pt, sLO, sR, sHI) ==
    IF ~ Gt(eval_pt.sat, sLO) THEN t.low
    ELSE IF ~ Lt(eval_pt.sat, sHI) THEN t.high
    ELSE IF Lt(eval_pt.sat, sR)
         THEN Add(t.low, Mul(Div(Sub(eval_pt.sat, sLO), Sub(sR, sLO)),
                             Sub(t.high, t.low)))
    ELSE Add(t.disp, Mul(Div(Sub(eval_pt.sat, sR), Sub(sHI, sR)),
                         Sub(t.high, t.disp)))

\* Mutant: the sub-interval is chosen by the table's displacing saturation.
ThreePoint_evalPoint_TableDisp(t, eval_pt, sLO, sR, sHI) ==
    IF ~ Gt(eval_pt.sat, sLO) THEN t.low
    ELSE IF ~ Lt(eval_pt.sat, sHI) THEN t.high
    ELSE IF Lt(eval_pt.sat, t.disp)
         THEN Add(t.low, Mul(Div(Sub(eval_pt.sat, sLO), Sub(sR, sLO)),
                             Sub(t.disp, t.low)))
    ELSE Add(t.disp, Mul(Div(Sub(eval_pt.sat, sR), Sub(sHI, sR)),
                         Sub(t.high, t.disp)))

\* The branch of eval's loop body that fills s_eff.
ThreePoint_evalPoint_StrictClamp(t, eval_pt, sLO, sR, sHI) ==
    IF Lt(eval_pt.sat, sLO) THEN t.low
    ELSE IF Gt(eval_pt.sat, sHI) THEN t.high
    ELSE IF Lt(eval_pt.sat, sR)
         THEN LET tt == Div(Sub(eval_pt.sat, sLO), Sub(sR, sLO))
              IN  Add(t.low, Mul(tt, Sub(t.disp, t.low)))
    ELSE LET tt == Div(Sub(eval_pt.sat, sR), Sub(sHI, sR))
         IN  Add(t.disp, Mul(tt, Sub(t.high, t.disp)))

ThreePoint_evalPoint(t, eval_pt, sLO, sR, sHI) ==
    IF ~ Gt(eval_pt.sat, sLO) THEN t.low
    ELSE IF ~ Lt(eval_pt.sat, sHI) THEN t.high
    ELSE IF Lt(eval_pt.sat, sR)
         THEN LET tt == Div(Sub(eval_pt.sat, sLO), Sub(sR, sLO))
              IN  Add(t.low, Mul(tt, Sub(t.disp, t.low)))
    ELSE LET tt == Div(Sub(eval_pt.sat, sR), Sub(sHI, sR))
         IN  Add(t.disp, Mul(tt, Sub(t.high, t.disp)))

RECURSIVE ThreePoint_evalLoop(_, _, _, _)
ThreePoint_evalLoop(t, pts, i, effsat) ==
    IF i > Len(pts) THEN effsat
    ELSE LET eval_pt == pts[i]
             cell    == eval_pt.cell
             sLO     == ThreePoint_sMin(cell, t)
             sR      == ThreePoint_sDisp(cell, t)
             sHI     == ThreePoint_sMax(cell, t)
         IN  IF ~ validSaturations(<<sLO, sR, sHI>>)
             THEN ThreePoint_evalLoop(t, pts, i + 1,
                      ThreePoint_handleInvalidEndpoint(eval_pt, effsat))
             ELSE ThreePoint_evalLoop(t, pts, i + 1,
                      Append(effsat,
                             ThreePoint_evalPoint(t, eval_pt, sLO, sR, sHI)))

ThreePoint_eval(t, pts) == ThreePoint_evalLoop(t, pts, 1, <<>>)

\* Mutant: the upper sub-interval is mapped back from sLO, not from sR.
ThreePoint_reversePoint_FromLow(t, eval_pt, sLO, sR, sHI) ==
    IF ~ Gt(eval_pt.sat, t.low) THEN sLO
    ELSE IF ~ Lt(eval_pt.sat, t.high) THEN sHI
    ELSE IF Lt(eval_pt.sat, t.disp)
         THEN Add(sLO, Mul(Div(Sub(eval_pt.sat, t.low), Sub(t.disp, t.low)),
                           Sub(sR, sLO)))
    ELSE Add(sLO, Mul(Div(Sub(eval_pt.sat, t.disp), Sub(t.high, t.disp)),
                      Sub(sHI, sR)))

\* The branch of reverse's loop body that fills s_unsc.
ThreePoint_reversePoint(t, eval_pt, sLO, sR, sHI) ==
    IF ~ Gt(eval_pt.sat, t.low) THEN sLO
    ELSE IF ~ Lt(eval_pt.sat, t.high) THEN sHI
    ELSE IF Lt(eval_pt.sat, t.disp)
         THEN LET tt == Div(Sub(eval_pt.sat, t.low), Sub(t.disp, t.low))
              IN  Add(sLO, Mul(tt, Sub(sR, sLO)))
    ELSE LET tt == Div(Sub(eval_pt.sat, t.disp), Sub(t.high, t.disp))
         IN  Add(sR, Mul(tt, Sub(sHI, sR)))

RECURSIVE ThreePoint_reverseLoop(_, _, _, _)
ThreePoint_reverseLoop(t, pts, i, unscaledsat) ==
    IF i > Len(pts) THEN unscaledsat
    ELSE LET eval_pt == pts[i]
             cell    == eval_pt.cell
             sLO     == ThreePoint_sMin(cell, t)
             sR      == ThreePoint_sDisp(cell, t)
             sHI     == ThreePoint_sMax(cell, t)
         IN  IF ~ validSaturations(<<sLO, sR, sHI>>)
             THEN ThreePoint_reverseLoop(t, pts, i + 1,
                      ThreePoint_handleInvalidEndpoint(eval_pt, unscaledsat))
             ELSE ThreePoint_reverseLoop(t, pts, i + 1,
                      Append(unscaledsat,
                             ThreePoint_reversePoint(t, eval_pt, sLO, sR, sHI)))

ThreePoint_reverse(t, pts) == ThreePoint_reverseLoop(t, pts, 1, <<>>)

\* ---------------------------------------------------------------------
\* Public classes TwoPointScaling and ThreePointScaling
\* ---------------------------------------------------------------------

\* EPSEvalInterface::eval, dispatched on the object's class.
eval(t, pts) ==
    IF kind = "TwoPoint" THEN TwoPoint_eval(t, pts) ELSE ThreePoint_eval(t, pts)

\* EPSEvalInterface::reverse, dispatched on the object's class.
reverse(t, pts) ==
    IF kind = "TwoPoint" THEN TwoPoint_reverse(t, pts)
    ELSE ThreePoint_reverse(t, pts)

NoTep == [low |-> Zero, disp |-> Zero, high |-> Zero]

\* The classes that implement EPSEvalInterface.
Horizontal == {"TwoPoint", "ThreePoint"}

\* struct VerticalScalingInterface::FunctionValues
FVal(ds, dv, ms, mv) ==
    [disp |-> [sat |-> ds, val |-> dv], max |-> [sat |-> ms, val |-> mv]]

NoF == FVal(Zero, Zero, Zero, Zero)

NoVertical ==
    /\ fdisp_ = <<>> /\ fmax_ = <<>>
    /\ f = NoF /\ val = <<>> /\ ndebug = FALSE /\ ended = "none"

NoCall ==
    /\ op = "none" /\ tep = NoTep /\ sp = <<>> /\ ret = <<>>
    /\ chain = "none" /\ orig = <<>>

\* TwoPointScaling::TwoPointScaling(smin, smax)
TwoPointScaling(smin, smax) ==
    /\ kind = "none"
    /\ IF Len(smin) # Len(smax)
      THEN /\ thrown' = "invalid_argument"
           /\ UNCHANGED <<object, call, vertical, extra>>
      ELSE /\ kind' = "TwoPoint"
           /\ smin_' = smin
           /\ sdisp_' = <<>>
           /\ smax_' = smax
           /\ handle_invalid_' = "UseUnscaled"
           /\ thrown' = "none"
           /\ UNCHANGED <<call, vertical, extra>>

\* Mutant: the length of smax is not compared.
ThreePointScaling_SminOnly(smin, sdisp, smax) ==
    /\ kind = "none"
    /\ IF Len(sdisp) # Len(smin)
      THEN /\ thrown' = "invalid_argument"
           /\ UNCHANGED <<object, call, vertical, extra>>
      ELSE /\ kind' = "ThreePoint"
           /\ smin_' = smin
           /\ sdisp_' = sdisp
           /\ smax_' = smax
           /\ handle_invalid_' = "UseUnscaled"
           /\ thrown' = "none"
           /\ UNCHANGED <<call, vertical, extra>>

\* ThreePointScaling::ThreePointScaling(smin, sdisp, smax)
ThreePointScaling(smin, sdisp, smax) ==
    /\ kind = "none"
    /\ IF (Len(sdisp) # Len(smin)) \/ (Len(sdisp) # Len(smax))
      THEN /\ thrown' = "invalid_argument"
           /\ UNCHANGED <<object, call, vertical, extra>>
      ELSE /\ kind' = "ThreePoint"
           /\ smin_' = smin
           /\ sdisp_' = sdisp
           /\ smax_' = smax
           /\ handle_invalid_' = "UseUnscaled"
           /\ thrown' = "none"
           /\ UNCHANGED <<call, vertical, extra>>

\* The saturation points a caller may pass: every cell is a cell of the object.
PointsOver(Sats, n) ==
    UNION { [1..k -> [cell : 0..(Len(smin_) - 1), sat : Sats]] : k \in 0..n }

\* A call of eval(tep, sp).
Eval(Teps, Sats, n) ==
    /\ kind \in Horizontal /\ op = "none"
    /\ \E t \in Teps, pts \in PointsOver(Sats, n) :
          /\ op' = "eval"
          /\ tep' = t
          /\ sp' = pts
          /\ ret' = eval(t, pts)
          /\ chain' = "none"
          /\ orig' = <<>>
    /\ UNCHANGED <<object, thrown, vertical, extra>>

\* A call of reverse(tep, sp).
Reverse(Teps, Sats, n) ==
    /\ kind \in Horizontal /\ op = "none"
    /\ \E t \in Teps, pts \in PointsOver(Sats, n) :
          /\ op' = "reverse"
          /\ tep' = t
          /\ sp' = pts
          /\ ret' = reverse(t, pts)
          /\ chain' = "none"
          /\ orig' = <<>>
    /\ UNCHANGED <<object, thrown, vertical, extra>>

\* The points of sp with the saturations of ret: what a caller passes on.
Returned == [i \in 1..Len(sp) |-> [cell |-> sp[i].cell, sat |-> ret[i]]]

\* reverse(tep, .) applied to what eval(tep, sp) returned.
ReverseOfEval ==
    /\ op = "eval" /\ chain = "none" /\ Len(ret) = Len(sp)
    /\ op' = "reverse"
    /\ sp' = Returned
    /\ ret' = reverse(tep, Returned)
    /\ chain' = "reverse_of_eval"
    /\ orig' = sp
    /\ UNCHANGED <<object, thrown, tep, vertical, extra>>

\* eval(tep, .) applied to what reverse(tep, sp) returned.
EvalOfReverse ==
    /\ op = "reverse" /\ chain = "none" /\ Len(ret) = Len(sp)
    /\ op' = "eval"
    /\ sp' = Returned
    /\ ret' = eval(tep, Returned)
    /\ chain' = "eval_of_reverse"
    /\ orig' = sp
    /\ UNCHANGED <<object, thrown, tep, vertical, extra>>

\* The caller drops the vector the last call returned.
Discard ==
    /\ op \in {"eval", "reverse"}
    /\ op' = "none" /\ tep' = NoTep /\ sp' = <<>> /\ ret' = <<>>
    /\ chain' = "none" /\ orig' = <<>>
    /\ UNCHANGED <<object, thrown, vertical, extra>>

\* ~TwoPointScaling, ~ThreePointScaling
Destroy ==
    /\ kind \in Horizontal /\ op = "none" /\ threads = <<>>
    /\ kind' = "none"
    /\ smin_' = <<>> /\ sdisp_' = <<>> /\ smax_' = <<>>
    /\ handle_invalid_' = "UseUnscaled"
    /\ thrown' = "none"
    /\ UNCHANGED <<call, vertical, extra>>

\* ---------------------------------------------------------------------
\* class PureVerticalScaling::Impl
\* ---------------------------------------------------------------------

\* arr[cell] of a std::vector: the element when cell is inside the vector,
\* otherwise the indeterminate value g that a read past its end yields.
At(arr, cell, g) == IF cell + 1 \in DOMAIN arr THEN arr[cell + 1] ELSE g

\* assert (sp.size() == val.size())
PureVertical_asserts(fv, pts, v) == Len(pts) = Len(v)

\* Mutant: the ratio is inverted.
PureVertical_scalePoint_Inverse(maxVal, y, fm) == Mul(y, Div(maxVal, fm))

\* The body of vertScale's loop: ret[i] *= fmax_[cell] / maxVal.
PureVertical_scalePoint(maxVal, y, fm) == Mul(y, Div(fm, maxVal))

\* The loop of vertScale over the points; an element of ret past its end is
\* not there to be written.
RECURSIVE PureVertical_vertScaleLoop(_, _, _, _, _)
PureVertical_vertScaleLoop(maxVal, pts, i, r, g) ==
    IF i > Len(pts) THEN r
    ELSE IF i > Len(r)
         THEN PureVertical_vertScaleLoop(maxVal, pts, i + 1, r, g)
         ELSE PureVertical_vertScaleLoop(maxVal, pts, i + 1,
                  [r EXCEPT ![i] = PureVertical_scalePoint(
                                       maxVal, r[i],
                                       At(fmax_, pts[i].cell, g))],
                  g)

PureVertical_vertScale(fv, pts, v, g) ==
    PureVertical_vertScaleLoop(fv.max.val, pts, 1, v, g)

\* The call indexes ret or fmax_ past its end.
PureVertical_undefined(pts, v) ==
    \/ Len(pts) > Len(v)
    \/ \E i \in 1..Len(pts) : pts[i].cell >= Len(fmax_)

\* ---------------------------------------------------------------------
\* class CritSatVerticalScaling::Impl
\* ---------------------------------------------------------------------

\* The three assertions at the head of vertScale.
CritSatVertical_asserts(fv, pts, v) ==
    /\ Len(pts) = Len(v)
    /\ ~ Lt(fv.max.val, fv.disp.val)
    /\ ~ Lt(fv.max.sat, fv.disp.sat)

\* Mutant: the left segment is rescaled by the ratio of the maxima.
CritSatVertical_scalePoint_LeftByMax(fv, s, y, sr, fr, fm) ==
    LET fdisp == fv.disp.val
        sdisp == fv.disp.sat
        fmax  == fv.max.val
        smax  == fv.max.sat
    IN  IF ~ Gt(s, sr) THEN Mul(y, Div(fm, fmax))
        ELSE IF Gt(fmax, fdisp)
             THEN Add(fr, Mul(Div(Sub(y, fdisp), Sub(fmax, fdisp)),
                              Sub(fm, fr)))
        ELSE IF Gt(sdisp, smax)
             THEN Add(fr, Mul(Div(Sub(s, sdisp), Sub(smax, sdisp)),
                              Sub(fm, fr)))
        ELSE fm

\* Mutant: the saturations of the table are tested before its values.
CritSatVertical_scalePoint_SatFirst(fv, s, y, sr, fr, fm) ==
    LET fdisp == fv.disp.val
        sdisp == fv.disp.sat
        fmax  == fv.max.val
        smax  == fv.max.sat
    IN  IF ~ Gt(s, sr) THEN Mul(y, Div(fr, fdisp))
        ELSE IF Gt(sdisp, smax)
             THEN Add(fr, Mul(Div(Sub(s, sdisp), Sub(smax, sdisp)),
                              Sub(fm, fr)))
        ELSE IF Gt(fmax, fdisp)
             THEN Add(fr, Mul(Div(Sub(y, fdisp), Sub(fmax, fdisp)),
                              Sub(fm, fr)))
        ELSE fm

\* Mutant: the fallback picks fdisp_[c].
CritSatVertical_scalePoint_FallbackDisp(fv, s, y, sr, fr, fm) ==
    LET fdisp == fv.disp.val
        sdisp == fv.disp.sat
        fmax  == fv.max.val
        smax  == fv.max.sat
    IN  IF ~ Gt(s, sr) THEN Mul(y, Div(fr, fdisp))
        ELSE IF Gt(fmax, fdisp)
             THEN Add(fr, Mul(Div(Sub(y, fdisp), Sub(fmax, fdisp)),
                              Sub(fm, fr)))
        ELSE IF Gt(sdisp, smax)
             THEN Add(fr, Mul(Div(Sub(s, sdisp), Sub(smax, sdisp)),
                              Sub(fm, fr)))
        ELSE fr

\* The body of vertScale's loop: the new value of y.
CritSatVertical_scalePoint(fv, s, y, sr, fr, fm) ==
    LET fdisp == fv.disp.val
        sdisp == fv.disp.sat
        fmax  == fv.max.val
        smax  == fv.max.sat
        sepfv == Gt(fmax, fdisp)
        sep_s == Gt(sdisp, smax)
    IN  IF ~ Gt(s, sr) THEN Mul(y, Div(fr, fdisp))
        ELSE IF sepfv
             THEN LET t == Div(Sub(y, fdisp), Sub(fmax, fdisp))
                  IN  Add(fr, Mul(t, Sub(fm, fr)))
        ELSE IF sep_s
             THEN LET t == Div(Sub(s, sdisp), Sub(smax, sdisp))
                  IN  Add(fr, Mul(t, Sub(fm, fr)))
        ELSE fm

RECURSIVE CritSatVertical_vertScaleLoop(_, _, _, _, _)
CritSatVertical_vertScaleLoop(fv, pts, i, r, g) ==
    IF i > Len(pts) THEN r
    ELSE IF i > Len(r)
         THEN CritSatVertical_vertScaleLoop(fv, pts, i + 1, r, g)
         ELSE LET c  == pts[i].cell
                  s  == pts[i].sat
                  sr == At(sdisp_, c, g)
                  fr == At(fdisp_, c, g)
                  fm == At(fmax_, c, g)
              IN  CritSatVertical_vertScaleLoop(fv, pts, i + 1,
                      [r EXCEPT ![i] = CritSatVertical_scalePoint(
                                           fv, s, r[i], sr, fr, fm)],
                      g)

CritSatVertical_vertScale(fv, pts, v, g) ==
    CritSatVertical_vertScaleLoop(fv, pts, 1, v, g)

\* The call indexes ret, sdisp_, fdisp_ or fmax_ past its end.
CritSatVertical_undefined(pts, v) ==
    \/ Len(pts) > Len(v)
    \/ \E i \in 1..Len(pts) :
          \/ pts[i].cell >= Len(sdisp_)
          \/ pts[i].cell >= Len(fdisp_)
          \/ pts[i].cell >= Len(fmax_)

\* ---------------------------------------------------------------------
\* Public classes PureVerticalScaling and CritSatVerticalScaling
\* ---------------------------------------------------------------------

\* The classes that implement VerticalScalingInterface.
Vertical == {"PureVertical", "CritSatVertical"}

\* PureVerticalScaling::PureVerticalScaling(fmax)
PureVerticalScaling(fmax) ==
    /\ kind = "none"
    /\ kind' = "PureVertical"
    /\ fmax_' = fmax
    /\ thrown' = "none"
    /\ UNCHANGED <<smin_, sdisp_, smax_, fdisp_, handle_invalid_>>
    /\ UNCHANGED <<call, f, val, ndebug, ended, extra>>

\* CritSatVerticalScaling::CritSatVerticalScaling(sdisp, fdisp, fmax)
CritSatVerticalScaling(sdisp, fdisp, fmax) ==
    /\ kind = "none"
    /\ kind' = "CritSatVertical"
    /\ sdisp_' = sdisp
    /\ fdisp_' = fdisp
    /\ fmax_' = fmax
    /\ thrown' = "none"
    /\ UNCHANGED <<smin_, smax_, handle_invalid_>>
    /\ UNCHANGED <<call, f, val, ndebug, ended, extra>>

\* VerticalScalingInterface::vertScale, dispatched on the object's class.
asserts(fv, pts, v) ==
    IF kind = "PureVertical" THEN PureVertical_asserts(fv, pts, v)
    ELSE CritSatVertical_asserts(fv, pts, v)

undefined(pts, v) ==
    IF kind = "PureVertical" THEN PureVertical_undefined(pts, v)
    ELSE CritSatVertical_undefined(pts, v)

vertScale(fv, pts, v, g) ==
    IF kind = "PureVertical" THEN PureVertical_vertScale(fv, pts, v, g)
    ELSE CritSatVertical_vertScale(fv, pts, v, g)

\* The cells of the grid the object was made for: one per entry of its
\* longest array.
VertCells ==
    LET n == IF Len(fdisp_) > Len(fmax_) THEN Len(fdisp_) ELSE Len(fmax_)
    IN  IF Len(sdisp_) > n THEN Len(sdisp_) ELSE n

VertPointsOver(Sats, n) ==
    UNION { [1..k -> [cell : 0..(VertCells - 1), sat : Sats]] : k \in 0..n }

ValuesOver(Vals, n) == UNION { [1..k -> Vals] : k \in 0..n }

\* What a read past the end of a vector may yield.
Indeterminate == {NaN, R(7, 10)}

\* A call of vertScale(f, sp, val).  A build without NDEBUG aborts when an
\* assertion fails.  A call that indexes a vector past its end has no
\* defined outcome: it may crash, or return with indeterminate values read.
VertScale(Fs, Sats, Vals, n) ==
    /\ kind \in Vertical /\ op = "none"
    /\ \E fv \in Fs, pts \in VertPointsOver(Sats, n),
          v \in ValuesOver(Vals, n), nd \in BOOLEAN :
          /\ op' = "vertScale"
          /\ f' = fv
          /\ sp' = pts
          /\ val' = v
          /\ ndebug' = nd
          /\ IF (~ nd) /\ (~ asserts(fv, pts, v))
             THEN ended' = "assertion" /\ ret' = <<>>
             ELSE IF undefined(pts, v)
             THEN /\ ended' = "undefined"
                  /\ \E g \in Indeterminate :
                        ret' \in {<<>>, vertScale(fv, pts, v, g)}
             ELSE /\ ended' = "returned"
                  /\ ret' = vertScale(fv, pts, v, Zero)
    /\ UNCHANGED <<object, fdisp_, fmax_, thrown, tep, chain, orig, extra>>

\* The caller drops what the last call of vertScale left.
DiscardVertical ==
    /\ op = "vertScale"
    /\ op' = "none" /\ sp' = <<>> /\ ret' = <<>>
    /\ f' = NoF /\ val' = <<>> /\ ndebug' = FALSE /\ ended' = "none"
    /\ UNCHANGED <<object, fdisp_, fmax_, thrown, tep, chain, orig, extra>>

\* ~PureVerticalScaling, ~CritSatVerticalScaling
DestroyVertical ==
    /\ kind \in Vertical /\ op = "none" /\ threads = <<>>
    /\ kind' = "none"
    /\ sdisp_' = <<>> /\ fdisp_' = <<>> /\ fmax_' = <<>>
    /\ thrown' = "none"
    /\ UNCHANGED <<smin_, smax_, handle_invalid_>>
    /\ UNCHANGED <<call, f, val, ndebug, ended, extra>>

\* Cells of an object and of the grid, and points of a call, in the
\* specifications of batches and of the factories.
NumCells == 2
MaxPts   == 2

\* ---------------------------------------------------------------------
\* namespace Create: the horizontal factories
\* ---------------------------------------------------------------------

\* enum ECLPhaseIndex, enum CreateEPS::SubSystem, enum
\* CreateEPS::FunctionCategory and struct CreateEPS::EPSOptions
PhaseIndex       == {"Aqua", "Liquid", "Vapour"}
SubSystem        == {"OilGas", "OilWater"}
FunctionCategory == {"Relperm", "CapPress"}
EPSOptions ==
    [use3PtScaling : BOOLEAN, thisPh : PhaseIndex, subSys : SubSystem,
     curve : FunctionCategory]

\* The saturation arrays the horizontal and the critical-saturation vertical
\* factories ask the INIT file for, and the function-value arrays the
\* vertical factories ask for.
SatKeywords == {"SGCR", "SGU", "SGL", "SGLPC", "SOGCR", "SOWCR",
                "SWCR", "SWU", "SWL", "SWLPC"}
KrKeywords  == {"KRG", "KRO", "KRW", "PCG", "PCW", "KRGR", "KRWR",
                "KRORG", "KRORW", "KROGR", "KROWR"}
Keywords    == SatKeywords \cup KrKeywords

\* G.numCells()
numCells == NumCells

\* G.rawLinearisedCellData<double>(init, vector): the array of the keyword,
\* empty when the INIT file does not have it.
rawLinearisedCellData(d, vector) == d.kw[vector]

\* What a factory hands back: the Impl of the object it made, or the
\* message of the exception it threw.
Made(k, smin, sdisp, smax, fdisp, fmax) ==
    [what |-> "", kind |-> k, smin |-> smin, sdisp |-> sdisp, smax |-> smax,
     fdisp |-> fdisp, fmax |-> fmax]

Throw(msg) ==
    [what |-> msg, kind |-> "none", smin |-> <<>>, sdisp |-> <<>>,
     smax |-> <<>>, fdisp |-> <<>>, fmax |-> <<>>]

\* TwoPointScaling::Impl::Impl, as run by new EPS{smin, smax}
TwoPoint_Impl(smin, smax) ==
    IF Len(smin) # Len(smax)
    THEN Throw("Size Mismatch Between Minimum and Maximum Saturation Arrays")
    ELSE Made("TwoPoint", smin, <<>>, smax, <<>>, <<>>)

\* ThreePointScaling::Impl::Impl, as run by new EPS{smin, sdisp, smax}
ThreePoint_Impl(smin, sdisp, smax) ==
    IF (Len(sdisp) # Len(smin)) \/ (Len(sdisp) # Len(smax))
    THEN Throw("Size Mismatch Between Minimum, Displacing and Maximum Saturation Arrays")
    ELSE Made("ThreePoint", smin, sdisp, smax, <<>>, <<>>)

\* std::vector<double>(n, 1.0)
Ones(n) == [i \in 1..n |-> One]

\* for (i < b.size()) a[i] -= b[i], for b no longer than a
Minus(a, b) == [i \in DOMAIN a |-> IF i <= Len(b) THEN Sub(a[i], b[i]) ELSE a[i]]

\* An optional array: subtracted when it has the size n and left out when
\* it is empty (the factories throw on one of another size before this).
MinusOptional(a, b, n) == IF Len(b) = n THEN Minus(a, b) ELSE a

\* Create::TwoPoint::Kr::G
TwoPoint_Kr_G(d) ==
    LET sgcr == rawLinearisedCellData(d, "SGCR")
        sgu  == rawLinearisedCellData(d, "SGU")
    IN  IF (Len(sgcr) # Len(sgu)) \/ (Len(sgcr) # numCells)
        THEN Throw("Missing or Mismatching Gas End-Point Specifications (SGCR and/or SGU)")
        ELSE TwoPoint_Impl(sgcr, sgu)

\* Create::TwoPoint::Kr::OG
TwoPoint_Kr_OG(d) ==
    LET sogcr == rawLinearisedCellData(d, "SOGCR")
        sgl   == rawLinearisedCellData(d, "SGL")
        swl   == rawLinearisedCellData(d, "SWL")
    IN  IF Len(sogcr) # numCells
        THEN Throw("Missing or Mismatching Critical Oil Saturation in Oil/Gas System")
        ELSE IF Len(sgl) # Len(sogcr)
        THEN Throw("Missing or Mismatching Connate Gas Saturation in Oil/Gas System")
        ELSE IF (Len(swl) # Len(sogcr)) /\ (swl # <<>>)
        THEN Throw("Mismatching Connate Water Saturation in Oil/Gas System")
        ELSE TwoPoint_Impl(sogcr,
                 MinusOptional(Minus(Ones(Len(sogcr)), sgl), swl, Len(sogcr)))

\* Create::TwoPoint::Kr::OW
TwoPoint_Kr_OW(d) ==
    LET sowcr == rawLinearisedCellData(d, "SOWCR")
        swl   == rawLinearisedCellData(d, "SWL")
        sgl   == rawLinearisedCellData(d, "SGL")
    IN  IF Len(sowcr) # numCells
        THEN Throw("Missing or Mismatching Critical Oil Saturation in Oil/Water System")
        ELSE IF Len(swl) # Len(sowcr)
        THEN Throw("Missing or Mismatching Connate Water Saturation in Oil/Water System")
        ELSE IF (Len(sgl) # Len(sowcr)) /\ (sgl # <<>>)
        THEN Throw("Mismatching Connate Gas Saturation in Oil/Water System")
        ELSE TwoPoint_Impl(sowcr,
                 MinusOptional(Minus(Ones(Len(sowcr)), swl), sgl, Len(sowcr)))

\* Create::TwoPoint::Kr::W with the test of Create::ThreePoint::Kr::W in
\* the place of its own.
TwoPoint_Kr_W_NumCells(d) ==
    LET swcr == rawLinearisedCellData(d, "SWCR")
        swu  == rawLinearisedCellData(d, "SWU")
    IN  IF (Len(swcr) # numCells) \/ (Len(swcr) # Len(swu))
        THEN Throw("Missing Water End-Point Specifications (SWCR and/or SWU)")
        ELSE TwoPoint_Impl(swcr, swu)

\* Create::TwoPoint::Kr::W
TwoPoint_Kr_W(d) ==
    LET swcr == rawLinearisedCellData(d, "SWCR")
        swu  == rawLinearisedCellData(d, "SWU")
    IN  IF (swcr = <<>>) \/ (swu = <<>>)
        THEN Throw("Missing Water End-Point Specifications (SWCR and/or SWU)")
        ELSE TwoPoint_Impl(swcr, swu)

\* Create::TwoPoint::Pc::GO
TwoPoint_Pc_GO(d) ==
    LET sglpc == rawLinearisedCellData(d, "SGLPC")
        sgl   == IF sglpc = <<>> THEN rawLinearisedCellData(d, "SGL")
                 ELSE sglpc
        sgu   == rawLinearisedCellData(d, "SGU")
    IN  IF (Len(sgl) # Len(sgu)) \/ (Len(sgl) # numCells)
        THEN Throw("Missing or Mismatching Connate or Maximum Gas Saturation in Pcgo EPS")
        ELSE TwoPoint_Impl(sgl, sgu)

\* Create::TwoPoint::Pc::OW
TwoPoint_Pc_OW(d) ==
    LET swlpc == rawLinearisedCellData(d, "SWLPC")
        swl   == IF swlpc = <<>> THEN rawLinearisedCellData(d, "SWL")
                 ELSE swlpc
        swu   == rawLinearisedCellData(d, "SWU")
    IN  IF (Len(swl) # Len(swu)) \/ (Len(swl) # numCells)
        THEN Throw("Missing or Mismatching Connate or Maximum Water Saturation in Pcow EPS")
        ELSE TwoPoint_Impl(swl, swu)

\* A null pointer, or an empty vector: what a factory returns past its last
\* test.
Invalid == Throw("")

\* Mutant: capillary pressure of oil is scaled as that of water.
TwoPoint_scalingFunction_OilPc(d, o) ==
    IF o.curve = "Relperm"
    THEN IF o.subSys = "OilWater"
         THEN IF o.thisPh = "Vapour"
              THEN Throw("Cannot Create an EPS for Gas Relperm in an Oil/Water System")
              ELSE IF o.thisPh = "Aqua" THEN TwoPoint_Kr_W(d)
              ELSE TwoPoint_Kr_OW(d)
         ELSE IF o.thisPh = "Aqua"
              THEN Throw("Cannot Create an EPS for Water Relperm in an Oil/Gas System")
              ELSE IF o.thisPh = "Vapour" THEN TwoPoint_Kr_G(d)
              ELSE TwoPoint_Kr_OG(d)
    ELSE IF o.thisPh = "Vapour" THEN TwoPoint_Pc_GO(d)
         ELSE TwoPoint_Pc_OW(d)

\* Create::TwoPoint::scalingFunction
TwoPoint_scalingFunction(d, o) ==
    IF (o.curve = "Relperm") /\ (o.subSys = "OilWater")
    THEN IF o.thisPh = "Vapour"
         THEN Throw("Cannot Create an EPS for Gas Relperm in an Oil/Water System")
         ELSE IF o.thisPh = "Aqua" THEN TwoPoint_Kr_W(d)
         ELSE TwoPoint_Kr_OW(d)
    ELSE IF (o.curve = "Relperm") /\ (o.subSys = "OilGas")
    THEN IF o.thisPh = "Aqua"
         THEN Throw("Cannot Create an EPS for Water Relperm in an Oil/Gas System")
         ELSE IF o.thisPh = "Vapour" THEN TwoPoint_Kr_G(d)
         ELSE TwoPoint_Kr_OG(d)
    ELSE IF o.curve = "CapPress"
    THEN IF o.thisPh = "Liquid"
         THEN Throw("Creating Capillary Pressure EPS as a Function of Oil Saturation is not Supported")
         ELSE IF o.thisPh = "Vapour" THEN TwoPoint_Pc_GO(d)
         ELSE IF o.thisPh = "Aqua" THEN TwoPoint_Pc_OW(d)
         ELSE Invalid
    ELSE Invalid

\* Create::ThreePoint::Kr::G
ThreePoint_Kr_G(d) ==
    LET sgcr  == rawLinearisedCellData(d, "SGCR")
        sgu   == rawLinearisedCellData(d, "SGU")
        swl   == rawLinearisedCellData(d, "SWL")
        sogcr == rawLinearisedCellData(d, "SOGCR")
    IN  IF (Len(sgcr) # Len(sgu)) \/ (Len(sgcr) # numCells)
        THEN Throw("Missing or Mismatching Gas End-Point Specifications (SGCR and/or SGU)")
        ELSE IF (Len(swl) # Len(sgcr)) /\ (swl # <<>>)
        THEN Throw("Connate Water Saturation Array Mismatch in Three-Point Scaling Option")
        ELSE IF (Len(sogcr) # Len(sgcr)) /\ (sogcr # <<>>)
        THEN Throw("Critical Oil Saturation (O/G System) Array Size Mismatch in Three-Point Scaling Option")
        ELSE ThreePoint_Impl(sgcr,
                 MinusOptional(MinusOptional(Ones(numCells), swl, Len(sgcr)),
                               sogcr, Len(sgcr)),
                 sgu)

\* Create::ThreePoint::Kr::OG
ThreePoint_Kr_OG(d) ==
    LET sogcr == rawLinearisedCellData(d, "SOGCR")
        sgl   == rawLinearisedCellData(d, "SGL")
        sgcr  == rawLinearisedCellData(d, "SGCR")
        swl   == rawLinearisedCellData(d, "SWL")
        n     == Len(sogcr)
    IN  IF n # numCells
        THEN Throw("Missing or Mismatching Critical Oil Saturation in Oil/Gas System")
        ELSE IF Len(sgl) # n
        THEN Throw("Missing or Mismatching Connate Gas Saturation in Oil/Gas System")
        ELSE IF Len(sgcr) # n
        THEN Throw("Missing or Mismatching Scaled Critical Gas Saturation in Oil/Gas System")
        ELSE IF (Len(swl) # n) /\ (swl # <<>>)
        THEN Throw("Mismatching Scaled Connate Water Saturation in Oil/Gas System")
        ELSE ThreePoint_Impl(sogcr,
                 MinusOptional(Minus(Ones(n), sgcr), swl, n),
                 MinusOptional(Minus(Ones(n), sgl), swl, n))

\* Create::ThreePoint::Kr::OW
ThreePoint_Kr_OW(d) ==
    LET sowcr == rawLinearisedCellData(d, "SOWCR")
        swl   == rawLinearisedCellData(d, "SWL")
        swcr  == rawLinearisedCellData(d, "SWCR")
        sgl   == rawLinearisedCellData(d, "SGL")
        n     == Len(sowcr)
    IN  IF n # numCells
        THEN Throw("Missing or Mismatching Critical Oil Saturation in Oil/Water System")
        ELSE IF Len(swl) # n
        THEN Throw("Missing or Mismatching Connate Water Saturation in Oil/Water System")
        ELSE IF Len(swcr) # n
        THEN Throw("Missing or Mismatching Scaled Critical Water Saturation in Oil/Water System")
        ELSE IF (Len(sgl) # n) /\ (sgl # <<>>)
        THEN Throw("Mismatching Connate Gas Saturation in Oil/Water System")
        ELSE ThreePoint_Impl(sowcr,
                 MinusOptional(Minus(Ones(n), swcr), sgl, n),
                 MinusOptional(Minus(Ones(n), swl), sgl, n))

\* Create::ThreePoint::Kr::W
ThreePoint_Kr_W(d) ==
    LET swcr  == rawLinearisedCellData(d, "SWCR")
        swu   == rawLinearisedCellData(d, "SWU")
        sowcr == rawLinearisedCellData(d, "SOWCR")
        sgl   == rawLinearisedCellData(d, "SGL")
        n     == Len(swcr)
    IN  IF (n # numCells) \/ (n # Len(swu))
        THEN Throw("Missing Water End-Point Specifications (SWCR and/or SWU)")
        ELSE IF (Len(sowcr) # n) /\ (sowcr # <<>>)
        THEN Throw("Missing or Mismatching Scaled Critical Oil Saturation in Oil/Water System")
        ELSE IF (Len(sgl) # n) /\ (sgl # <<>>)
        THEN Throw("Missing or Mismatching Scaled Connate Gas Saturation in Oil/Water System")
        ELSE ThreePoint_Impl(swcr,
                 MinusOptional(MinusOptional(Ones(n), sowcr, n), sgl, n),
                 swu)

\* Create::ThreePoint::scalingFunction
ThreePoint_scalingFunction(d, o) ==
    IF o.subSys = "OilWater"
    THEN IF o.thisPh = "Vapour"
         THEN Throw("Cannot Create a Three-Point EPS for Gas Relperm in an Oil/Water System")
         ELSE IF o.thisPh = "Aqua" THEN ThreePoint_Kr_W(d)
         ELSE ThreePoint_Kr_OW(d)
    ELSE IF o.subSys = "OilGas"
    THEN IF o.thisPh = "Aqua"
         THEN Throw("Cannot Create a Three-Point EPS for Water Relperm in an Oil/Gas System")
         ELSE IF o.thisPh = "Vapour" THEN ThreePoint_Kr_G(d)
         ELSE ThreePoint_Kr_OG(d)
    ELSE Invalid

\* Mutant: the two-point family is built for every option.
Horizontal_fromECLOutput_TwoPointOnly(d, o) == TwoPoint_scalingFunction(d, o)

\* CreateEPS::Horizontal::fromECLOutput
Horizontal_fromECLOutput(d, o) ==
    IF (o.curve = "CapPress") \/ (~ o.use3PtScaling)
    THEN TwoPoint_scalingFunction(d, o)
    ELSE IF (o.curve = "Relperm") /\ o.use3PtScaling
    THEN ThreePoint_scalingFunction(d, o)
    ELSE Invalid

\* unscaledTwoPt: the displacing saturation is ignored and set to the
\* minimum.
unscaledTwoPt(min, max) ==
    [i \in DOMAIN min |-> [low |-> min[i], disp |-> min[i], high |-> max[i]]]

\* unscaledThreePt
unscaledThreePt(min, disp, max) ==
    [i \in DOMAIN min |-> [low |-> min[i], disp |-> disp[i], high |-> max[i]]]

\* What a function that returns table end points hands back.
EndPoints(family, uep) == [what |-> "", via |-> family, uep |-> uep]

NoEndPoints(family, msg) == [what |-> msg, via |-> family, uep |-> <<>>]

\* Create::TwoPoint::unscaledEndPoints
TwoPoint_unscaledEndPoints(e, o) ==
    IF o.curve = "CapPress"
    THEN IF o.thisPh = "Liquid"
         THEN NoEndPoints("TwoPoint", "No Capillary Pressure Function for Oil")
         ELSE IF o.thisPh = "Aqua"
         THEN EndPoints("TwoPoint", unscaledTwoPt(e.conn.water, e.smax.water))
         ELSE EndPoints("TwoPoint", unscaledTwoPt(e.conn.gas, e.smax.gas))
    ELSE IF o.subSys = "OilGas"
    THEN IF o.thisPh = "Aqua"
         THEN NoEndPoints("TwoPoint",
                  "Void Request for Unscaled Water Saturation End-Points in Oil-Gas System")
         ELSE IF o.thisPh = "Liquid"
         THEN EndPoints("TwoPoint",
                  unscaledTwoPt(e.crit.oil_in_gas, e.smax.oil))
         ELSE EndPoints("TwoPoint", unscaledTwoPt(e.crit.gas, e.smax.gas))
    ELSE IF o.thisPh = "Aqua"
         THEN EndPoints("TwoPoint", unscaledTwoPt(e.crit.water, e.smax.water))
         ELSE IF o.thisPh = "Liquid"
         THEN EndPoints("TwoPoint",
                  unscaledTwoPt(e.crit.oil_in_water, e.smax.oil))
         ELSE NoEndPoints("TwoPoint",
                  "Void Request for Unscaled Gas Saturation End-Points in Oil-Water System")

\* The lambda sdisp of Create::ThreePoint::unscaledEndPoints
sdispOf(s1, s2) == [i \in DOMAIN s1 |-> Sub(One, Add(s1[i], s2[i]))]

\* Create::ThreePoint::unscaledEndPoints
ThreePoint_unscaledEndPoints(e, o) ==
    IF o.subSys = "OilGas"
    THEN IF o.thisPh = "Aqua"
         THEN NoEndPoints("ThreePoint",
                  "Void Request for Unscaled Water Saturation End-Points in Oil-Gas System")
         ELSE IF o.thisPh = "Liquid"
         THEN EndPoints("ThreePoint",
                  unscaledThreePt(e.crit.oil_in_gas,
                                  sdispOf(e.crit.gas, e.conn.water),
                                  e.smax.oil))
         ELSE EndPoints("ThreePoint",
                  unscaledThreePt(e.crit.gas,
                                  sdispOf(e.crit.oil_in_gas, e.conn.water),
                                  e.smax.gas))
    ELSE IF o.thisPh = "Aqua"
         THEN EndPoints("ThreePoint",
                  unscaledThreePt(e.crit.water,
                                  sdispOf(e.crit.oil_in_water, e.conn.gas),
                                  e.smax.water))
         ELSE IF o.thisPh = "Liquid"
         THEN EndPoints("ThreePoint",
                  unscaledThreePt(e.crit.oil_in_water,
                                  sdispOf(e.crit.water, e.conn.gas),
                                  e.smax.oil))
         ELSE NoEndPoints("ThreePoint",
                  "Void Request for Unscaled Gas Saturation End-Points in Oil-Water System")

\* CreateEPS::Horizontal::unscaledEndPoints
Horizontal_unscaledEndPoints(e, o) ==
    IF (o.curve = "CapPress") \/ (~ o.use3PtScaling)
    THEN TwoPoint_unscaledEndPoints(e, o)
    ELSE IF (o.curve = "Relperm") /\ o.use3PtScaling
    THEN ThreePoint_unscaledEndPoints(e, o)
    ELSE NoEndPoints("none", "")

\* ---------------------------------------------------------------------
\* namespace Create: the vertical factories
\* ---------------------------------------------------------------------

\* init.haveKeywordData(kw, grid), for the one grid of the model
haveKeywordData(d, kw) == d.kw[kw] # <<>>

\* The CvrtVal arguments of gridDefaultedVector: the lambda
\* [](const double s) { return s; } and the lambda of
\* pureVerticalCapPressScaling, unit::convert::from(pc, pscale).
Unconverted  == "s"
FromPressure == "pc"

\* gridDefaultedVector: per cell the converted value of the keyword when its
\* magnitude is below 1.0e20, and else the table value of the cell's
\* saturation region; an absent keyword counts as -1.0e21 in every cell and
\* an absent SATNUM as region 1.
gridDefaultedVector(d, vector, dflt, cvrt) ==
    LET snum == IF d.satnum # <<>> THEN d.satnum
                ELSE [c \in 1..numCells |-> 1]
        v    == IF haveKeywordData(d, vector)
                THEN rawLinearisedCellData(d, vector)
                ELSE [c \in 1..numCells |-> <<-10, 1, 1>>]
        cvrtVal(x) == IF cvrt = FromPressure THEN Mul(x, d.pscale) ELSE x
    IN  [c \in 1..numCells |->
            IF Lt(Abs(v[c]), Sentinel) THEN cvrtVal(v[c]) ELSE dflt[snum[c]]]

\* The keyword haveScaledRelPermAtCritSat looks for.
haveScaledRelPermAtCritSatKeyword(phase, subSys) ==
    CASE phase = "Aqua"   -> "KRWR"
      [] phase = "Liquid" -> IF subSys = "OilGas" THEN "KROGR" ELSE "KROWR"
      [] phase = "Vapour" -> "KRGR"

\* haveScaledRelPermAtCritSat
haveScaledRelPermAtCritSat(d, phase, subSys) ==
    haveKeywordData(d, haveScaledRelPermAtCritSatKeyword(phase, subSys))

\* fv.max.val and fv.disp.val of every table
maxVals(fvals)  == [i \in DOMAIN fvals |-> fvals[i].max.val]
dispVals(fvals) == [i \in DOMAIN fvals |-> fvals[i].disp.val]

\* pureVerticalRelpermScaling
pureVerticalRelpermScaling(d, dflt, vector) ==
    Made("PureVertical", <<>>, <<>>, <<>>, <<>>,
         gridDefaultedVector(d, vector, dflt, Unconverted))

\* pureVerticalCapPressScaling: the pressures are converted from the unit
\* system of the INIT file.
pureVerticalCapPressScaling(d, dflt, vector) ==
    Made("PureVertical", <<>>, <<>>, <<>>, <<>>,
         gridDefaultedVector(d, vector, dflt, FromPressure))

\* Create::PureVertical::scalingFunction, with Kr::G, Kr::O, Kr::W, Pc::GO
\* and Pc::OW
PureVertical_scalingFunction(d, o, fvals) ==
    LET dfltVals == maxVals(fvals)
    IN  IF (o.curve = "Relperm") /\ (o.subSys = "OilGas")
        THEN IF o.thisPh = "Aqua"
             THEN Throw("Cannot Create Vertical Scaling for Water Relperm in an Oil/Gas System")
             ELSE IF o.thisPh = "Vapour"
             THEN pureVerticalRelpermScaling(d, dfltVals, "KRG")
             ELSE pureVerticalRelpermScaling(d, dfltVals, "KRO")
        ELSE IF (o.curve = "Relperm") /\ (o.subSys = "OilWater")
        THEN IF o.thisPh = "Vapour"
             THEN Throw("Cannot Create Vertical Scaling for Gas Relperm in an Oil/Water System")
             ELSE IF o.thisPh = "Aqua"
             THEN pureVerticalRelpermScaling(d, dfltVals, "KRW")
             ELSE pureVerticalRelpermScaling(d, dfltVals, "KRO")
        ELSE IF o.curve = "CapPress"
        THEN IF o.thisPh = "Liquid"
             THEN Throw("Creating Capillary Pressure Vertical Scaling as a Function of Oil Saturation is not Supported")
             ELSE IF o.thisPh = "Vapour"
             THEN pureVerticalCapPressScaling(d, dfltVals, "PCG")
             ELSE IF o.thisPh = "Aqua"
             THEN pureVerticalCapPressScaling(d, dfltVals, "PCW")
             ELSE Invalid
        ELSE Invalid

\* 1.0 - (a + b) and 1.0 - a, cell by cell
OneMinusSum(a, b) == [c \in DOMAIN a |-> Sub(One, Add(a[c], b[c]))]
OneMinus(a)       == [c \in DOMAIN a |-> Sub(One, a[c])]

\* The end of each Create::CritSatVertical::Kr function: fdisp and fmax
\* from their keywords, defaulted to the table values.
CritSatVertical_Impl(d, sdisp, fval, fdispKw, fmaxKw) ==
    Made("CritSatVertical", <<>>, sdisp, <<>>,
         gridDefaultedVector(d, fdispKw, dispVals(fval), Unconverted),
         gridDefaultedVector(d, fmaxKw, maxVals(fval), Unconverted))

\* Create::CritSatVertical::Kr::G
CritSatVertical_Kr_G(d, rtep, fval) ==
    LET sdisp ==
            IF d.oil
            THEN OneMinusSum(
                     gridDefaultedVector(d, "SOGCR", rtep.crit.oil_in_gas,
                                         Unconverted),
                     gridDefaultedVector(d, "SWL", rtep.conn.water,
                                         Unconverted))
            ELSE OneMinus(gridDefaultedVector(d, "SWCR", rtep.crit.water,
                                              Unconverted))
    IN  CritSatVertical_Impl(d, sdisp, fval, "KRGR", "KRG")

\* Create::CritSatVertical::Kr::GO
CritSatVertical_Kr_GO(d, rtep, fval) ==
    LET sdisp ==
            OneMinusSum(
                gridDefaultedVector(d, "SGCR", rtep.crit.gas, Unconverted),
                gridDefaultedVector(d, "SWL", rtep.conn.water, Unconverted))
    IN  CritSatVertical_Impl(d, sdisp, fval, "KRORG", "KRO")

\* Create::CritSatVertical::Kr::OW
CritSatVertical_Kr_OW(d, rtep, fval) ==
    LET sdisp ==
            OneMinusSum(
                gridDefaultedVector(d, "SWCR", rtep.crit.water, Unconverted),
                gridDefaultedVector(d, "SGL", rtep.conn.gas, Unconverted))
    IN  CritSatVertical_Impl(d, sdisp, fval, "KRORW", "KRO")

\* Create::CritSatVertical::Kr::W
CritSatVertical_Kr_W(d, rtep, fval) ==
    LET sdisp ==
            IF d.oil
            THEN OneMinusSum(
                     gridDefaultedVector(d, "SOWCR", rtep.crit.oil_in_water,
                                         Unconverted),
                     gridDefaultedVector(d, "SGL", rtep.conn.gas,
                                         Unconverted))
            ELSE OneMinus(gridDefaultedVector(d, "SGCR", rtep.crit.gas,
                                              Unconverted))
    IN  CritSatVertical_Impl(d, sdisp, fval, "KRWR", "KRW")

\* Create::CritSatVertical::scalingFunction
CritSatVertical_scalingFunction(d, o, rtep, fvals) ==
    IF o.subSys = "OilWater"
    THEN IF o.thisPh = "Vapour"
         THEN Throw("Cannot Create Critical Saturation Vertical Scaling for Gas Relperm in an Oil/Water System")
         ELSE IF o.thisPh = "Aqua" THEN CritSatVertical_Kr_W(d, rtep, fvals)
         ELSE CritSatVertical_Kr_OW(d, rtep, fvals)
    ELSE IF o.subSys = "OilGas"
    THEN IF o.thisPh = "Aqua"
         THEN Throw("Cannot Create Critical Saturation Vertical Scaling for Water Relperm in an Oil/Gas System")
         ELSE IF o.thisPh = "Vapour" THEN CritSatVertical_Kr_G(d, rtep, fvals)
         ELSE CritSatVertical_Kr_GO(d, rtep, fvals)
    ELSE Invalid

\* CreateEPS::Vertical::fromECLOutput
Vertical_fromECLOutput(d, o, rtep, fvals) ==
    LET haveScaleCRS == haveScaledRelPermAtCritSat(d, o.thisPh, o.subSys)
    IN  IF (o.curve = "CapPress") \/ (~ haveScaleCRS)
        THEN PureVertical_scalingFunction(d, o, fvals)
        ELSE IF (o.curve = "Relperm") /\ haveScaleCRS
        THEN CritSatVertical_scalingFunction(d, o, rtep, fvals)
        ELSE Invalid

\* A saturation function of the caller: the square of the saturation in
\* every table.
evalSF(regID, sat) == Mul(sat, sat)

\* What unscaledFunctionValues hands back: the function values per table
\* and the nodes at which it called the evaluator.
FunctionValues(u, fvals, nodes) ==
    [what |-> u.what, via |-> u.via, uep |-> u.uep,
     fvals |-> IF u.what = "" THEN fvals ELSE <<>>,
     nodes |-> IF u.what = "" THEN nodes ELSE {}]

\* Mutant: the displacing node is evaluated for every relative permeability.
Vertical_unscaledFunctionValues_AllRelperm(d, e, o) ==
    IF o.curve = "CapPress"
    THEN LET u == TwoPoint_unscaledEndPoints(e,
                      [o EXCEPT !.use3PtScaling = FALSE])
         IN  FunctionValues(u,
                 [i \in DOMAIN u.uep |->
                     FVal(Zero, Zero,
                          u.uep[i].high, evalSF(i - 1, u.uep[i].high))],
                 {"max"})
    ELSE LET u == ThreePoint_unscaledEndPoints(e,
                      [o EXCEPT !.use3PtScaling = TRUE])
         IN  FunctionValues(u,
                 [i \in DOMAIN u.uep |->
                     FVal(u.uep[i].disp, evalSF(i - 1, u.uep[i].disp),
                          u.uep[i].high, evalSF(i - 1, u.uep[i].high))],
                 {"disp", "max"})

\* CreateEPS::Vertical::unscaledFunctionValues; table i of the code is
\* table i + 1 here, and ret.resize leaves the nodes that are not assigned
\* at zero.
Vertical_unscaledFunctionValues(d, e, o) ==
    LET haveScaleCRS == haveScaledRelPermAtCritSat(d, o.thisPh, o.subSys)
    IN  IF (o.curve = "CapPress") \/ (~ haveScaleCRS)
        THEN LET u == TwoPoint_unscaledEndPoints(e,
                          [o EXCEPT !.use3PtScaling = FALSE])
             IN  FunctionValues(u,
                     [i \in DOMAIN u.uep |->
                         FVal(Zero, Zero,
                              u.uep[i].high, evalSF(i - 1, u.uep[i].high))],
                     {"max"})
        ELSE LET u == ThreePoint_unscaledEndPoints(e,
                          [o EXCEPT !.use3PtScaling = TRUE])
             IN  FunctionValues(u,
                     [i \in DOMAIN u.uep |->
                         FVal(u.uep[i].disp, evalSF(i - 1, u.uep[i].disp),
                              u.uep[i].high, evalSF(i - 1, u.uep[i].high))],
                     {"disp", "max"})

\* ---------------------------------------------------------------------
\* Arguments of the factory functions
\* ---------------------------------------------------------------------

\* Saturation regions (tables) of the factories' arguments.
NumRegions == 2

\* The value every cell of a keyword's array holds when the INIT file has
\* the keyword.
KeywordValue ==
    [k \in Keywords |->
        CASE k = "SWL"   -> R(1, 10)  [] k = "SWLPC" -> R(3, 20)
          [] k = "SWCR"  -> R(1, 5)   [] k = "SWU"   -> One
          [] k = "SGL"   -> Zero      [] k = "SGLPC" -> R(1, 20)
          [] k = "SGCR"  -> R(1, 10)  [] k = "SGU"   -> R(9, 10)
          [] k = "SOWCR" -> R(1, 5)   [] k = "SOGCR" -> R(3, 10)
          [] k = "KRW"   -> R(1, 2)   [] k = "KRO"   -> R(9, 10)
          [] k = "KRG"   -> R(4, 5)   [] k = "PCW"   -> R(2, 1)
          [] k = "PCG"   -> R(3, 1)   [] k = "KRWR"  -> R(1, 5)
          [] k = "KRGR"  -> R(3, 10)  [] k = "KRORW" -> R(2, 5)
          [] k = "KRORG" -> R(3, 5)   [] k = "KROWR" -> R(7, 10)
          [] k = "KROGR" -> R(1, 10)]

\* The array the horizontal factories find for keyword k: none, one of
\* numCells - 1 values or one of numCells values.
HorizontalArray(k, how) ==
    CASE how = "absent" -> <<>>
      [] how = "short"  -> [c \in 1..(numCells - 1) |-> KeywordValue[k]]
      [] how = "full"   -> [c \in 1..numCells |-> KeywordValue[k]]

\* The array the vertical factories find for keyword k: none, or one value
\* per cell, the first of which may be defaulted.
VerticalArray(k, how) ==
    CASE how = "absent"    -> <<>>
      [] how = "full"      -> [c \in 1..numCells |-> KeywordValue[k]]
      [] how = "defaulted" -> [c \in 1..numCells |->
                                 IF c = 1 THEN Sentinel ELSE KeywordValue[k]]

\* The keywords the horizontal factories consult for the options o.
HorizontalReads(o) ==
    IF o.curve = "CapPress"
    THEN CASE o.thisPh = "Vapour" -> {"SGLPC", "SGL", "SGU"}
           [] o.thisPh = "Aqua"   -> {"SWLPC", "SWL", "SWU"}
           [] OTHER               -> {}
    ELSE CASE o.thisPh = "Aqua" /\ o.subSys = "OilWater" ->
                  {"SWCR", "SWU", "SOWCR", "SGL"}
           [] o.thisPh = "Liquid" /\ o.subSys = "OilWater" ->
                  {"SOWCR", "SWL", "SWCR", "SGL"}
           [] o.thisPh = "Liquid" /\ o.subSys = "OilGas" ->
                  {"SOGCR", "SGL", "SGCR", "SWL"}
           [] o.thisPh = "Vapour" /\ o.subSys = "OilGas" ->
                  {"SGCR", "SGU", "SWL", "SOGCR"}
           [] OTHER -> {}

\* The keywords the vertical factories consult for the options o.
VerticalReads(o) ==
    {haveScaledRelPermAtCritSatKeyword(o.thisPh, o.subSys)} \cup
    (IF o.curve = "CapPress"
     THEN CASE o.thisPh = "Vapour" -> {"PCG"}
            [] o.thisPh = "Aqua"   -> {"PCW"}
            [] OTHER               -> {}
     ELSE CASE o.thisPh = "Aqua" /\ o.subSys = "OilWater" ->
                   {"KRWR", "KRW", "SOWCR", "SGL", "SGCR"}
            [] o.thisPh = "Liquid" /\ o.subSys = "OilWater" ->
                   {"KRORW", "KRO", "SWCR", "SGL"}
            [] o.thisPh = "Liquid" /\ o.subSys = "OilGas" ->
                   {"KRORG", "KRO", "SGCR", "SWL"}
            [] o.thisPh = "Vapour" /\ o.subSys = "OilGas" ->
                   {"KRGR", "KRG", "SOGCR", "SWL", "SWCR"}
            [] OTHER -> {})

\* INIT files for a call of Horizontal::fromECLOutput with the options o:
\* every combination of arrays of the keywords the call consults.
HorizontalInits(o) ==
    { [kw |-> [k \in Keywords |->
                  IF k \in HorizontalReads(o)
                  THEN HorizontalArray(k, how[k]) ELSE <<>>],
       satnum |-> <<>>, oil |-> TRUE, pscale |-> One] :
        how \in [HorizontalReads(o) -> {"absent", "short", "full"}] }

\* SATNUM of the INIT file: absent, or the regions in turn.
Satnums == {<<>>, [c \in 1..numCells |-> ((c - 1) % NumRegions) + 1]}

\* INIT files for a call of the vertical factories with the options o; the
\* phases of INTEHEAD and the pressure unit vary where the call reads them.
VerticalInits(o) ==
    { [kw |-> [k \in Keywords |->
                  IF k \in VerticalReads(o)
                  THEN VerticalArray(k, how[k]) ELSE <<>>],
       satnum |-> sn, oil |-> oil, pscale |-> ps] :
        how \in [VerticalReads(o) -> {"absent", "full", "defaulted"}],
        sn \in Satnums,
        oil \in IF o.thisPh = "Liquid" THEN {TRUE} ELSE BOOLEAN,
        ps \in IF o.curve = "CapPress" THEN {One, R(100000, 1)} ELSE {One} }

\* The unscaled end points of the tables, one value per region.
PerRegion(v) == [r \in 1..NumRegions |-> v]

RawEndPoints ==
    {[conn |-> [gas |-> PerRegion(Zero), water |-> PerRegion(R(1, 10))],
      crit |-> [oil_in_gas |-> PerRegion(R(1, 5)),
                oil_in_water |-> PerRegion(R(1, 4)),
                gas |-> PerRegion(R(1, 20)),
                water |-> PerRegion(R(3, 20))],
      smax |-> [gas |-> PerRegion(R(9, 10)), oil |-> PerRegion(R(9, 10)),
                water |-> PerRegion(One)]]}

\* The unscaled function values of the tables, one per region.
FuncValVectors == {PerRegion(FVal(R(7, 10), R(1, 4), R(9, 10), R(3, 4)))}

\* ---------------------------------------------------------------------
\* Calls of the factory functions
\* ---------------------------------------------------------------------

NoOpt ==
    [use3PtScaling |-> FALSE, thisPh |-> "none", subSys |-> "none",
     curve |-> "none"]

NoInit ==
    [kw |-> [k \in Keywords |-> <<>>], satnum |-> <<>>, oil |-> FALSE,
     pscale |-> One]

NoEp ==
    [conn |-> [gas |-> <<>>, water |-> <<>>],
     crit |-> [oil_in_gas |-> <<>>, oil_in_water |-> <<>>, gas |-> <<>>,
               water |-> <<>>],
     smax |-> [gas |-> <<>>, oil |-> <<>>, water |-> <<>>]]

NoMade ==
    [fn |-> "none", what |-> "", via |-> "none", uep |-> <<>>,
     fvals |-> <<>>, nodes |-> {}]

NoFactory == opt = NoOpt /\ init = NoInit /\ ep = NoEp /\ made = NoMade

\* A call of CreateEPS::Horizontal::fromECLOutput(G, init, opt): the object
\* it returns becomes the object of the model.
CallHorizontalFromECLOutput(Opts) ==
    /\ kind = "none" /\ made = NoMade
    /\ \E o \in Opts : \E d \in HorizontalInits(o) :
          LET r == Horizontal_fromECLOutput(d, o)
          IN  /\ kind' = r.kind
              /\ smin_' = r.smin /\ sdisp_' = r.sdisp /\ smax_' = r.smax
              /\ handle_invalid_' = "UseUnscaled"
              /\ thrown' = IF r.what = "" THEN "none" ELSE "invalid_argument"
              /\ made' = [fn |-> "Horizontal::fromECLOutput",
                          what |-> r.what, via |-> r.kind, uep |-> <<>>,
                          fvals |-> <<>>, nodes |-> {}]
              /\ opt' = o /\ init' = d /\ ep' = NoEp
    /\ UNCHANGED <<call, vertical, other, threads>>

\* A call of CreateEPS::Horizontal::unscaledEndPoints(ep, opt).
CallHorizontalUnscaledEndPoints(Opts, Eps) ==
    /\ kind = "none" /\ made = NoMade
    /\ \E o \in Opts, e \in Eps :
          LET r == Horizontal_unscaledEndPoints(e, o)
          IN  /\ made' = [fn |-> "Horizontal::unscaledEndPoints",
                          what |-> r.what, via |-> r.via, uep |-> r.uep,
                          fvals |-> <<>>, nodes |-> {}]
              /\ opt' = o /\ init' = NoInit /\ ep' = e
    /\ UNCHANGED <<object, thrown, call, vertical, other, threads>>

\* A call of CreateEPS::Vertical::fromECLOutput(G, init, opt, tep, fvals):
\* the object it returns becomes the object of the model.
CallVerticalFromECLOutput(Opts, Eps, FVals) ==
    /\ kind = "none" /\ made = NoMade
    /\ \E o \in Opts, rtep \in Eps, fvals \in FVals :
       \E d \in VerticalInits(o) :
          LET r == Vertical_fromECLOutput(d, o, rtep, fvals)
          IN  /\ kind' = r.kind
              /\ sdisp_' = r.sdisp /\ fdisp_' = r.fdisp /\ fmax_' = r.fmax
              /\ thrown' = IF r.what = "" THEN "none" ELSE "invalid_argument"
              /\ made' = [fn |-> "Vertical::fromECLOutput", what |-> r.what,
                          via |-> r.kind, uep |-> <<>>, fvals |-> fvals,
                          nodes |-> {}]
              /\ opt' = o /\ init' = d /\ ep' = rtep
    /\ UNCHANGED <<smin_, smax_, handle_invalid_>>
    /\ UNCHANGED <<call, f, val, ndebug, ended, other, threads>>

\* A call of CreateEPS::Vertical::unscaledFunctionValues(G, init, ep, opt,
\* evalSF).
CallVerticalUnscaledFunctionValues(Opts, Eps) ==
    /\ kind = "none" /\ made = NoMade
    /\ \E o \in Opts, e \in Eps : \E d \in VerticalInits(o) :
          LET r == Vertical_unscaledFunctionValues(d, e, o)
          IN  /\ made' = [fn |-> "Vertical::unscaledFunctionValues",
                          what |-> r.what, via |-> r.via, uep |-> r.uep,
                          fvals |-> r.fvals, nodes |-> r.nodes]
              /\ opt' = o /\ init' = d /\ ep' = e
    /\ UNCHANGED <<object, thrown, call, vertical, other, threads>>

\* The caller lets go of what the last factory call returned or threw, and
\* of the arguments it passed.
DiscardMade ==
    /\ made # NoMade
    /\ opt' = NoOpt /\ init' = NoInit /\ ep' = NoEp /\ made' = NoMade
    /\ UNCHANGED <<object, thrown, call, vertical, other, threads>>

\* ---------------------------------------------------------------------
\* Copies, moves, assignments and clones of TwoPointScaling and
\* ThreePointScaling
\* ---------------------------------------------------------------------

\* No second object.  Field by tells how the second object came to hold
\* its Impl ("constructed", "moved", "cloned"), or that it gave its Impl
\* away ("moved_from").
NoObject ==
    [kind |-> "none", smin_ |-> <<>>, sdisp_ |-> <<>>, smax_ |-> <<>>,
     handle_invalid_ |-> "UseUnscaled", by |-> "none"]

\* new Impl(*pImpl_): the implicit copy constructor of Impl copies every
\* member, handle_invalid_ included.
ImplCopy(by) ==
    [kind |-> kind, smin_ |-> smin_, sdisp_ |-> sdisp_, smax_ |-> smax_,
     handle_invalid_ |-> handle_invalid_, by |-> by]

\* TwoPointScaling(const TwoPointScaling& rhs) and
\* ThreePointScaling(const ThreePointScaling& rhs), rhs the object and the
\* second object the one constructed.
CopyConstruct ==
    /\ kind \in Horizontal /\ op = "none" /\ other.kind = "none"
    /\ other' = ImplCopy("constructed")
    /\ UNCHANGED <<object, thrown, call, vertical, factory, threads>>

\* TwoPointScaling(TwoPointScaling&& rhs) and
\* ThreePointScaling(ThreePointScaling&& rhs): the second object takes the
\* Impl of the object, whose pImpl_ is left null.
MoveConstruct ==
    /\ kind \in Horizontal /\ op = "none" /\ other.kind = "none"
    /\ other' = ImplCopy("moved")
    /\ kind' = "none"
    /\ smin_' = <<>> /\ sdisp_' = <<>> /\ smax_' = <<>>
    /\ handle_invalid_' = "UseUnscaled"
    /\ thrown' = "none"
    /\ UNCHANGED <<call, vertical, factory, threads>>

\* clone(): a new object copy-constructed from *this, held through a
\* pointer to EPSEvalInterface.
Clone ==
    /\ kind \in Horizontal /\ op = "none" /\ other.kind = "none"
    /\ other' = ImplCopy("cloned")
    /\ UNCHANGED <<object, thrown, call, vertical, factory, threads>>

\* Mutant: the copy made for the assignment starts from IgnorePoint.
CopyAssign_IgnorePoint ==
    /\ kind \in Horizontal /\ op = "none" /\ other.kind = kind
    /\ smin_' = other.smin_ /\ sdisp_' = other.sdisp_ /\ smax_' = other.smax_
    /\ handle_invalid_' = "IgnorePoint"
    /\ UNCHANGED <<kind, thrown, call, vertical, factory, other, threads>>

\* operator=(const TwoPointScaling& rhs) and
\* operator=(const ThreePointScaling& rhs), rhs the second object:
\* pImpl_.reset(new Impl(*rhs.pImpl_)).
CopyAssign ==
    /\ kind \in Horizontal /\ op = "none" /\ other.kind = kind
    /\ smin_' = other.smin_ /\ sdisp_' = other.sdisp_ /\ smax_' = other.smax_
    /\ handle_invalid_' = other.handle_invalid_
    /\ UNCHANGED <<kind, thrown, call, vertical, factory, other, threads>>

\* operator=(TwoPointScaling&& rhs) and operator=(ThreePointScaling&& rhs),
\* rhs the second object: pImpl_ = std::move(rhs.pImpl_).
MoveAssign ==
    /\ kind \in Horizontal /\ op = "none" /\ other.kind = kind
    /\ smin_' = other.smin_ /\ sdisp_' = other.sdisp_ /\ smax_' = other.smax_
    /\ handle_invalid_' = other.handle_invalid_
    /\ other' = [NoObject EXCEPT !.by = "moved_from"]
    /\ UNCHANGED <<kind, thrown, call, vertical, factory, threads>>

\* The destructor of the second object.
DestroyOther ==
    /\ other # NoObject
    /\ other' = NoObject
    /\ UNCHANGED <<object, thrown, call, vertical, factory, threads>>

\* ---------------------------------------------------------------------
\* Concurrent calls of eval, reverse and vertScale on one object
\* ---------------------------------------------------------------------

\* The calls that may run at once.
NumThreads == 2

\* No call in progress.
NoThreads == <<>>

\* The points of a concurrent call: one per cell in turn, at saturation s.
ThreadPoints(cells, s, n) ==
    [i \in 1..n |-> [cell |-> (i - 1) % cells, sat |-> s]]

\* A call of eval(tep, sp) starts: its result vector effsat is empty.
BeginEval(Teps, Sats, n) ==
    /\ kind \in Horizontal /\ Len(smin_) > 0 /\ Len(threads) < NumThreads
    /\ \E t \in Teps, s \in Sats :
          threads' = Append(threads,
                         [op |-> "eval", tep |-> t, f |-> NoF,
                          sp |-> ThreadPoints(Len(smin_), s, n),
                          val |-> <<>>, i |-> 1, out |-> <<>>])
    /\ UNCHANGED <<object, thrown, call, vertical, factory, other>>

\* A call of reverse(tep, sp) starts: its result vector unscaledsat is
\* empty.
BeginReverse(Teps, Sats, n) ==
    /\ kind \in Horizontal /\ Len(smin_) > 0 /\ Len(threads) < NumThreads
    /\ \E t \in Teps, s \in Sats :
          threads' = Append(threads,
                         [op |-> "reverse", tep |-> t, f |-> NoF,
                          sp |-> ThreadPoints(Len(smin_), s, n),
                          val |-> <<>>, i |-> 1, out |-> <<>>])
    /\ UNCHANGED <<object, thrown, call, vertical, factory, other>>

\* A call of vertScale(f, sp, val) starts, its assertions passed and its
\* cells inside the arrays: ret holds the values of val.
BeginVertScale(Fs, Sats, Vals, n) ==
    /\ kind \in Vertical /\ VertCells > 0 /\ Len(threads) < NumThreads
    /\ \E fv \in Fs, s \in Sats, y \in Vals :
          LET pts == ThreadPoints(VertCells, s, n)
              v   == [i \in 1..n |-> y]
          IN  /\ asserts(fv, pts, v)
              /\ ~ undefined(pts, v)
              /\ threads' = Append(threads,
                                [op |-> "vertScale", tep |-> NoTep, f |-> fv,
                                 sp |-> pts, val |-> v, i |-> 1, out |-> v])
    /\ UNCHANGED <<object, thrown, call, vertical, factory, other>>

\* The call c has left its loop.
HasReturned(c) == c.i > Len(c.sp)

\* One turn of the loop of call c, at point c.i: the loop of its function
\* run over that point alone, on the result vector as it stands.
Turn(c) ==
    LET upto == SubSeq(c.sp, 1, c.i)
        srng == Sub(c.tep.high, c.tep.low)
    IN  IF c.op = "eval"
        THEN IF kind = "TwoPoint"
             THEN TwoPoint_evalLoop(c.tep, srng, upto, c.i, c.out)
             ELSE ThreePoint_evalLoop(c.tep, upto, c.i, c.out)
        ELSE IF c.op = "reverse"
        THEN IF kind = "TwoPoint"
             THEN TwoPoint_reverseLoop(c.tep, srng, upto, c.i, c.out)
             ELSE ThreePoint_reverseLoop(c.tep, upto, c.i, c.out)
        ELSE IF kind = "PureVertical"
        THEN PureVertical_vertScaleLoop(c.f.max.val, upto, c.i, c.out, Zero)
        ELSE CritSatVertical_vertScaleLoop(c.f, upto, c.i, c.out, Zero)

\* Mutant: the turn stores the minimum saturation it resolved for the cell
\* in the object.
Step_CacheEndPoint(n) ==
    /\ n \in DOMAIN threads /\ ~ HasReturned(threads[n])
    /\ threads' = [threads EXCEPT ![n].out = Turn(threads[n]),
                                  ![n].i = @ + 1]
    /\ smin_' = IF kind \in Horizontal
                THEN LET c == threads[n]
                         cell == c.sp[c.i].cell
                     IN  [smin_ EXCEPT ![cell + 1] =
                             defaultedScaledSaturation(@, c.tep.low)]
                ELSE smin_
    /\ UNCHANGED <<kind, sdisp_, smax_, handle_invalid_>>
    /\ UNCHANGED <<thrown, call, vertical, factory, other>>

\* Call n takes one turn of its loop: it reads the object and its
\* arguments and writes its own result vector.
Step(n) ==
    /\ n \in DOMAIN threads /\ ~ HasReturned(threads[n])
    /\ threads' = [threads EXCEPT ![n].out = Turn(threads[n]),
                                  ![n].i = @ + 1]
    /\ UNCHANGED <<object, thrown, call, vertical, factory, other>>

\* Every call has returned and the callers drop the results.
Join ==
    /\ threads # <<>>
    /\ \A n \in DOMAIN threads : HasReturned(threads[n])
    /\ threads' = <<>>
    /\ UNCHANGED <<object, thrown, call, vertical, factory, other>>

Init ==
    /\ kind = "none"
    /\ smin_ = <<>> /\ sdisp_ = <<>> /\ smax_ = <<>>
    /\ handle_invalid_ = "UseUnscaled"
    /\ thrown = "none"
    /\ NoCall
    /\ NoVertical
    /\ NoFactory
    /\ other = NoObject
    /\ threads = NoThreads

\* ---------------------------------------------------------------------
\* Inputs
\* ---------------------------------------------------------------------

Tep(l, d, h) == [low |-> l, disp |-> d, high |-> h]

\* Per-cell arrays of n - 1 or n cells over the values V.
ArraysOf(V, n) == UNION { [1..k -> V] : k \in (n - 1)..n }

BatchSmin  == {R(1, 5), R(3, 2)}
BatchSdisp == {R(1, 2), Sentinel}
BatchSmax  == {R(9, 10)}
BatchTeps  == {Tep(R(1, 10), R(2, 5), R(4, 5))}
BatchSats  == {R(1, 10), R(3, 5)}

\* One cell and one point, over more values: ordered, coinciding and
\* inverted end points, end points outside [0, 1], and magnitudes below, at
\* and above the sentinel (5e19, 1e20, 1e21).
PointSmin  == {R(1, 5), R(1, 2), R(9, 10), R(3, 2), R(-1, 10), NaN,
               Sentinel, Neg(Sentinel), <<1, 2, 1>>, <<-10, 1, 1>>}
PointSdisp == {R(1, 5), R(1, 2), R(9, 10), R(3, 2), Sentinel, <<-1, 2, 1>>}
PointSmax  == {R(1, 5), R(1, 2), R(9, 10), One, Sentinel, <<10, 1, 1>>}
PointTepVals == {R(1, 10), R(2, 5), R(4, 5)}
PointTeps  == { t \in [low : PointTepVals, disp : PointTepVals,
                        high : PointTepVals] :
                  (~ Lt(t.disp, t.low)) /\ (~ Lt(t.high, t.disp)) }
PointSats  == {Zero, R(1, 10), R(1, 5), R(3, 10), R(1, 2), R(3, 5),
               R(9, 10), One}

\* ---------------------------------------------------------------------
\* Specifications
\* ---------------------------------------------------------------------

Next ==
    \/ \E smin \in ArraysOf(BatchSmin, NumCells),
          smax \in ArraysOf(BatchSmax, NumCells) :
          TwoPointScaling(smin, smax)
    \/ \E smin  \in ArraysOf(BatchSmin, NumCells),
          sdisp \in ArraysOf(BatchSdisp, NumCells),
          smax  \in ArraysOf(BatchSmax, NumCells) :
          ThreePointScaling(smin, sdisp, smax)
    \/ Eval(BatchTeps, BatchSats, MaxPts)
    \/ Reverse(BatchTeps, BatchSats, MaxPts)
    \/ ReverseOfEval
    \/ EvalOfReverse
    \/ Discard
    \/ Destroy

\* Objects as the constructors make them, called with batches of points.
Spec == Init /\ [][Next]_vars

\* An object whose handle_invalid_ holds either value of the enumeration.
InitPolicy ==
    /\ kind \in {"TwoPoint", "ThreePoint"}
    /\ smin_ \in [1..NumCells -> BatchSmin]
    /\ sdisp_ \in IF kind = "TwoPoint" THEN {<<>>}
                  ELSE [1..NumCells -> BatchSdisp]
    /\ smax_ \in [1..NumCells -> BatchSmax]
    /\ handle_invalid_ \in InvalidEndpointBehaviour
    /\ thrown = "none"
    /\ NoCall
    /\ NoVertical
    /\ NoFactory
    /\ other = NoObject
    /\ threads = NoThreads

SpecPolicy == InitPolicy /\ [][Next]_vars

NextPoint ==
    \/ \E smin \in ArraysOf(PointSmin, 1), smax \in ArraysOf(PointSmax, 1) :
          TwoPointScaling(smin, smax)
    \/ \E smin  \in ArraysOf(PointSmin, 1),
          sdisp \in ArraysOf(PointSdisp, 1),
          smax  \in ArraysOf(PointSmax, 1) :
          ThreePointScaling(smin, sdisp, smax)
    \/ Eval(PointTeps, PointSats, 1)
    \/ Reverse(PointTeps, PointSats, 1)
    \/ ReverseOfEval
    \/ EvalOfReverse
    \/ Discard
    \/ Destroy

\* One-cell objects called with one point at a time.
SpecPoint == Init /\ [][NextPoint]_vars

NextFactory ==
    \/ CallHorizontalFromECLOutput(EPSOptions)
    \/ CallHorizontalUnscaledEndPoints(EPSOptions, RawEndPoints)
    \/ CallVerticalFromECLOutput(EPSOptions, RawEndPoints,
                                 FuncValVectors)
    \/ CallVerticalUnscaledFunctionValues(EPSOptions,
                                          RawEndPoints)
    \/ DiscardMade
    \/ Destroy
    \/ DestroyVertical

\* Objects and table values as the factory functions make them.
SpecFactory == Init /\ [][NextFactory]_vars

\* The option sets and arrays of the factory calls in the specification of
\* copies: water in oil-water relative permeability, with every pattern of
\* the arrays it reads.
CopyOpts ==
    { o \in EPSOptions : /\ o.thisPh = "Aqua" /\ o.subSys = "OilWater"
                         /\ o.curve = "Relperm" }

NextCopy ==
    \/ \E smin \in ArraysOf(BatchSmin, 1), smax \in ArraysOf(BatchSmax, 1) :
          TwoPointScaling(smin, smax)
    \/ \E smin  \in ArraysOf(BatchSmin, 1),
          sdisp \in ArraysOf(BatchSdisp, 1),
          smax  \in ArraysOf(BatchSmax, 1) :
          ThreePointScaling(smin, sdisp, smax)
    \/ CallHorizontalFromECLOutput(CopyOpts)
    \/ DiscardMade
    \/ CopyConstruct
    \/ MoveConstruct
    \/ CopyAssign
    \/ MoveAssign
    \/ Clone
    \/ DestroyOther
    \/ Eval(BatchTeps, BatchSats, 1)
    \/ Reverse(BatchTeps, BatchSats, 1)
    \/ Discard
    \/ Destroy

\* Objects as the constructors and the horizontal factory make them,
\* copied, moved, assigned and cloned, and called with one point at a time.
SpecCopy == Init /\ [][NextCopy]_vars

\* Vertical scaling objects over arrays of NumCells - 1 or NumCells cells,
\* called with up to MaxPts points and up to MaxPts values.
VertFmax   == {R(1, 2), One}
CritSdisp  == {R(3, 10)}
CritFdisp  == {R(2, 5)}
CritFmax   == {R(9, 10)}
BatchFs    == {FVal(R(1, 5), R(1, 2), R(4, 5), One)}
BatchVals  == {R(3, 4)}

NextVertical ==
    \/ \E fmax \in ArraysOf(VertFmax, NumCells) : PureVerticalScaling(fmax)
    \/ \E sdisp \in ArraysOf(CritSdisp, NumCells),
          fdisp \in ArraysOf(CritFdisp, NumCells),
          fmax  \in ArraysOf(CritFmax, NumCells) :
          CritSatVerticalScaling(sdisp, fdisp, fmax)
    \/ VertScale(BatchFs, BatchSats, BatchVals, MaxPts)
    \/ DiscardVertical
    \/ DestroyVertical

SpecVertical == Init /\ [][NextVertical]_vars

\* One object of each class, two tables and two saturations for the
\* concurrent calls.  The minimum of the first cell is left to the table.
ThreadSmin  == [c \in 1..NumCells |-> IF c = 1 THEN Sentinel ELSE R(1, 5)]
ThreadSdisp == [c \in 1..NumCells |-> R(1, 2)]
ThreadSmax  == [c \in 1..NumCells |-> R(9, 10)]
ThreadFdisp == [c \in 1..NumCells |-> R(2, 5)]
ThreadFmax  == [c \in 1..NumCells |-> IF c = 1 THEN R(9, 10) ELSE R(1, 2)]
ThreadTeps  == {Tep(R(1, 10), R(2, 5), R(4, 5)), Tep(Zero, R(1, 2), One)}
ThreadSats  == {R(3, 10), R(3, 5)}

NextThreads ==
    \/ TwoPointScaling(ThreadSmin, ThreadSmax)
    \/ ThreePointScaling(ThreadSmin, ThreadSdisp, ThreadSmax)
    \/ PureVerticalScaling(ThreadFmax)
    \/ CritSatVerticalScaling(ThreadSdisp, ThreadFdisp, ThreadFmax)
    \/ BeginEval(ThreadTeps, ThreadSats, MaxPts)
    \/ BeginReverse(ThreadTeps, ThreadSats, MaxPts)
    \/ BeginVertScale(BatchFs, ThreadSats, BatchVals, MaxPts)
    \/ \E n \in 1..NumThreads : Step(n)
    \/ Join
    \/ Destroy
    \/ DestroyVertical

\* Objects of the four classes under concurrent calls.
SpecThreads == Init /\ [][NextThreads]_vars

\* One-cell vertical scaling objects called with one point and one value at
\* a time, over more values: tables whose displacing and maximum nodes
\* coincide in value, in saturation or in both, tables that break an
\* assertion of vertScale, and values of zero.
PointFmax  == {Zero, R(1, 2), R(9, 10)}
PointFdisp == {Zero, R(2, 5)}
PointFSats == {R(1, 5), R(4, 5)}
PointFVals == {Zero, R(1, 2), One}
PointFs    == { FVal(ds, dv, ms, mv) :
                    ds \in PointFSats, dv \in PointFVals,
                    ms \in PointFSats, mv \in PointFVals }
PointVals  == {Zero, R(1, 4), R(1, 2), R(3, 4)}
PointVSats == {R(1, 10), R(3, 10), R(1, 2)}

NextVerticalPoint ==
    \/ \E fmax \in [1..1 -> PointFmax] : PureVerticalScaling(fmax)
    \/ \E sdisp \in [1..1 -> CritSdisp],
          fdisp \in [1..1 -> PointFdisp],
          fmax  \in [1..1 -> PointFmax] :
          CritSatVerticalScaling(sdisp, fdisp, fmax)
    \/ VertScale(PointFs, PointVSats, PointVals, 1)
    \/ DiscardVertical
    \/ DestroyVertical

SpecVerticalPoint == Init /\ [][NextVerticalPoint]_vars

\* ---------------------------------------------------------------------
\* Vocabulary of the properties
\* ---------------------------------------------------------------------

Le(a, b) == Lt(a, b) \/ (a = b /\ ~ IsNaN(a))

\* a value of the closed interval [0, 1]
InUnit(v) == Le(Zero, v) /\ Le(v, One)

\* |v| < 1e20
IsSet(v) == Lt(Neg(Sentinel), v) /\ Lt(v, Sentinel)

\* The effective end point: the stored value if set, else the table's.
Resolved(v, fallback) == IF IsSet(v) THEN v ELSE fallback

Points == 1..Len(sp)

sLOof(i) == Resolved(smin_[sp[i].cell + 1], tep.low)
sRof(i)  == Resolved(sdisp_[sp[i].cell + 1], tep.disp)
sHIof(i) == Resolved(smax_[sp[i].cell + 1], tep.high)

\* Every resolved end point of point i's cell is in [0, 1].
ValidEnds(i) ==
    /\ InUnit(sLOof(i))
    /\ InUnit(sHIof(i))
    /\ (kind = "ThreePoint") => InUnit(sRof(i))

\* Output i of the last call is v.
Out(i, v) == i \in DOMAIN ret /\ ret[i] = v

\* lo + ((s - a) / (b - a)) * (hi - lo)
Interp(s, a, b, lo, hi) == Add(lo, Mul(Div(Sub(s, a), Sub(b, a)), Sub(hi, lo)))

TwoPointEval   == kind = "TwoPoint" /\ op = "eval"
ThreePointEval == kind = "ThreePoint" /\ op = "eval"

\* ---------------------------------------------------------------------
\* C1
\* ---------------------------------------------------------------------

\* C1 (as stated): TwoPointScaling::eval returns tep.low for every point
\* with valid end points, sLO <= sHI and s <= sLO, and tep.high for every
\* such point with s >= sHI.
C1_ClampAsStated ==
    TwoPointEval =>
        \A i \in Points :
            (ValidEnds(i) /\ Le(sLOof(i), sHIof(i))) =>
                /\ Le(sp[i].sat, sLOof(i)) => Out(i, tep.low)
                /\ Le(sHIof(i), sp[i].sat) => Out(i, tep.high)

\* C1 (amended): TwoPointScaling::eval returns tep.low for every point with
\* valid end points, sLO <= sHI and s <= sLO, and tep.high for every such
\* point with s >= sHI and s > sLO: the lower clamp is tested first.
C1_Clamp ==
    TwoPointEval =>
        \A i \in Points :
            (ValidEnds(i) /\ Le(sLOof(i), sHIof(i))) =>
                /\ Le(sp[i].sat, sLOof(i)) => Out(i, tep.low)
                /\ (Le(sHIof(i), sp[i].sat) /\ Lt(sLOof(i), sp[i].sat))
                       => Out(i, tep.high)

\* Both clamps have acted: a point below sLO and, on a cell with
\* sLO = sHI, the point s = sLO = sHI, where tep.low differs from tep.high.
C1_Witness ==
    /\ TwoPointEval /\ Len(sp) = 1 /\ ValidEnds(1)
    /\ sLOof(1) = sHIof(1) /\ sp[1].sat = sLOof(1)
    /\ tep.low # tep.high /\ ret = <<tep.low>>

\* ---------------------------------------------------------------------
\* C2
\* ---------------------------------------------------------------------

\* C2: TwoPointScaling::eval returns
\* tep.low + ((s - sLO)/(sHI - sLO)) * (tep.high - tep.low) for every point
\* with valid end points and sLO < s < sHI.
C2_Interior ==
    TwoPointEval =>
        \A i \in Points :
            (ValidEnds(i) /\ Lt(sLOof(i), sp[i].sat) /\ Lt(sp[i].sat, sHIof(i)))
                => Out(i, Interp(sp[i].sat, sLOof(i), sHIof(i),
                                 tep.low, tep.high))

\* An interior point mapped strictly between distinct table end points.
C2_Witness ==
    /\ TwoPointEval /\ Len(sp) = 1 /\ ValidEnds(1)
    /\ Lt(sLOof(1), sp[1].sat) /\ Lt(sp[1].sat, sHIof(1))
    /\ Len(ret) = 1 /\ Lt(tep.low, ret[1]) /\ Lt(ret[1], tep.high)

\* ---------------------------------------------------------------------
\* C3
\* ---------------------------------------------------------------------

\* C3 (as stated): ThreePointScaling::eval returns
\* tep.low + ((s - sLO)/(sR - sLO)) * (tep.disp - tep.low) for every point
\* with valid end points and sLO < s < sR, and
\* tep.disp + ((s - sR)/(sHI - sR)) * (tep.high - tep.disp) for every such
\* point with sR <= s < sHI.
C3_SubIntervalsAsStated ==
    ThreePointEval =>
        \A i \in Points :
            ValidEnds(i) =>
                /\ (Lt(sLOof(i), sp[i].sat) /\ Lt(sp[i].sat, sRof(i)))
                       => Out(i, Interp(sp[i].sat, sLOof(i), sRof(i),
                                        tep.low, tep.disp))
                /\ (Le(sRof(i), sp[i].sat) /\ Lt(sp[i].sat, sHIof(i)))
                       => Out(i, Interp(sp[i].sat, sRof(i), sHIof(i),
                                        tep.disp, tep.high))

\* C3 (amended): the outer clamps come first.  For valid end points,
\* ThreePointScaling::eval returns tep.low when s <= sLO, else tep.high when
\* s >= sHI; for sLO < s < sHI it returns
\* tep.low + ((s - sLO)/(sR - sLO)) * (tep.disp - tep.low) when s < sR and
\* tep.disp + ((s - sR)/(sHI - sR)) * (tep.high - tep.disp) when s >= sR.
\* tep = {0.1, 0.4, 0.8} with cell end points {0.2, 0.5, 0.9} maps 0.6 to 0.5.
C3_SubIntervals ==
    ThreePointEval =>
        \A i \in Points :
            ValidEnds(i) =>
                /\ Le(sp[i].sat, sLOof(i)) => Out(i, tep.low)
                /\ (Lt(sLOof(i), sp[i].sat) /\ Le(sHIof(i), sp[i].sat))
                       => Out(i, tep.high)
                /\ (Lt(sLOof(i), sp[i].sat) /\ Lt(sp[i].sat, sHIof(i))
                        /\ Lt(sp[i].sat, sRof(i)))
                       => Out(i, Interp(sp[i].sat, sLOof(i), sRof(i),
                                        tep.low, tep.disp))
                /\ (Lt(sLOof(i), sp[i].sat) /\ Lt(sp[i].sat, sHIof(i))
                        /\ Le(sRof(i), sp[i].sat))
                       => Out(i, Interp(sp[i].sat, sRof(i), sHIof(i),
                                        tep.disp, tep.high))
                /\ (/\ tep = Tep(R(1, 10), R(2, 5), R(4, 5))
                    /\ sLOof(i) = R(1, 5) /\ sRof(i) = R(1, 2)
                    /\ sHIof(i) = R(9, 10) /\ sp[i].sat = R(3, 5))
                       => Out(i, R(1, 2))

\* The scenario of the specification: 0.6 on the cell {0.2, 0.5, 0.9}.
C3_Witness ==
    /\ ThreePointEval /\ chain = "none"
    /\ tep = Tep(R(1, 10), R(2, 5), R(4, 5))
    /\ smin_ = <<R(1, 5)>> /\ sdisp_ = <<R(1, 2)>> /\ smax_ = <<R(9, 10)>>
    /\ sp = <<[cell |-> 0, sat |-> R(3, 5)]>>
    /\ ret = <<R(1, 2)>>

\* ---------------------------------------------------------------------
\* C4
\* ---------------------------------------------------------------------

\* The table end points are strictly ordered: low < high for a two-point
\* object, low < disp < high for a three-point object.
StrictTable ==
    IF kind = "TwoPoint" THEN Lt(tep.low, tep.high)
    ELSE Lt(tep.low, tep.disp) /\ Lt(tep.disp, tep.high)

\* The end points of point i's cell are strictly ordered.
StrictCell(i) ==
    IF kind = "TwoPoint" THEN Lt(sLOof(i), sHIof(i))
    ELSE Lt(sLOof(i), sRof(i)) /\ Lt(sRof(i), sHIof(i))

\* C4 (as stated): for valid end points of the cell and of the table and s
\* strictly inside (sLO, sHI), reverse applied to the result of eval returns
\* s, for both classes.
C4_EvalReverseAsStated ==
    chain = "reverse_of_eval" =>
        \A i \in Points :
            (ValidEnds(i) /\ Lt(sLOof(i), orig[i].sat)
                 /\ Lt(orig[i].sat, sHIof(i)))
                => Out(i, orig[i].sat)

\* C4 (amended): for valid end points of the cell, table end points that
\* are strictly ordered (low < high for two-point, low < disp < high for
\* three-point) and s strictly inside (sLO, sHI), reverse applied to the
\* result of eval returns s (up to the rounding of doubles), for both classes.
C4_EvalReverse ==
    (chain = "reverse_of_eval" /\ StrictTable) =>
        \A i \in Points :
            (ValidEnds(i) /\ Lt(sLOof(i), orig[i].sat)
                 /\ Lt(orig[i].sat, sHIof(i)))
                => Out(i, orig[i].sat)

\* A three-point round trip through a value eval has changed.
C4_Witness ==
    /\ chain = "reverse_of_eval" /\ kind = "ThreePoint" /\ StrictTable
    /\ Len(sp) = 1 /\ ValidEnds(1)
    /\ Lt(sLOof(1), orig[1].sat) /\ Lt(orig[1].sat, sHIof(1))
    /\ sp[1].sat # orig[1].sat /\ ret = <<orig[1].sat>>

\* ---------------------------------------------------------------------
\* C5
\* ---------------------------------------------------------------------

\* C5 (as stated): for valid end points and a saturation strictly inside
\* (tep.low, tep.high), eval applied to the result of reverse returns that
\* saturation, for both classes.
C5_ReverseEvalAsStated ==
    chain = "eval_of_reverse" =>
        \A i \in Points :
            (ValidEnds(i) /\ Lt(tep.low, orig[i].sat)
                 /\ Lt(orig[i].sat, tep.high))
                => Out(i, orig[i].sat)

\* C5 (amended): for valid end points of the cell that are strictly ordered
\* (sLO < sHI for two-point, sLO < sR < sHI for three-point) and a
\* saturation strictly inside (tep.low, tep.high), eval applied to the
\* result of reverse returns that saturation (up to the rounding of
\* doubles), for both classes.
C5_ReverseEval ==
    chain = "eval_of_reverse" =>
        \A i \in Points :
            (ValidEnds(i) /\ StrictCell(i) /\ Lt(tep.low, orig[i].sat)
                 /\ Lt(orig[i].sat, tep.high))
                => Out(i, orig[i].sat)

\* A three-point round trip through a value reverse has changed.
C5_Witness ==
    /\ chain = "eval_of_reverse" /\ kind = "ThreePoint"
    /\ Len(sp) = 1 /\ ValidEnds(1) /\ StrictCell(1)
    /\ Lt(tep.low, orig[1].sat) /\ Lt(orig[1].sat, tep.high)
    /\ sp[1].sat # orig[1].sat /\ ret = <<orig[1].sat>>

\* ---------------------------------------------------------------------
\* C6
\* ---------------------------------------------------------------------

\* The last call's function, applied to other points.
LastCall(pts) == IF op = "eval" THEN eval(tep, pts) ELSE reverse(tep, pts)

\* The entries of seq at the points of sp whose cell has valid end points.
RECURSIVE KeepValidFrom(_, _)
KeepValidFrom(seq, i) ==
    IF i > Len(sp) THEN <<>>
    ELSE (IF ValidEnds(i) THEN <<seq[i]>> ELSE <<>>) \o KeepValidFrom(seq, i + 1)

KeepValid(seq) == KeepValidFrom(seq, 1)

\* C6: under UseUnscaled, eval and reverse of both classes return the input
\* saturation for every point whose cell has an end point outside [0, 1],
\* and return for the other points what the call without the invalid points
\* returns.
C6_InvalidPassThrough ==
    (op # "none" /\ handle_invalid_ = "UseUnscaled") =>
        /\ Len(ret) = Len(sp)
        /\ \A i \in Points : (~ ValidEnds(i)) => ret[i] = sp[i].sat
        /\ KeepValid(ret) = LastCall(KeepValid(sp))

\* A batch of an invalid point followed by a point that is interpolated.
C6_Witness ==
    /\ op = "eval" /\ kind = "ThreePoint" /\ handle_invalid_ = "UseUnscaled"
    /\ Len(sp) = 2 /\ ~ ValidEnds(1) /\ ValidEnds(2)
    /\ Len(ret) = 2 /\ ret[1] = sp[1].sat
    /\ Lt(tep.low, ret[2]) /\ Lt(ret[2], tep.high) /\ ret[2] # sp[2].sat

\* ---------------------------------------------------------------------
\* C7
\* ---------------------------------------------------------------------

\* C7: under IgnorePoint, eval returns one entry per point, and NaN for
\* every point whose cell has an end point outside [0, 1].
C7_IgnorePointNaN ==
    (op = "eval" /\ handle_invalid_ = "IgnorePoint") =>
        /\ Len(ret) = Len(sp)
        /\ \A i \in Points : (~ ValidEnds(i)) => ret[i] = NaN

\* smin_[c] = 1.5 under IgnorePoint, beside a point of a valid cell.
C7_Witness ==
    /\ op = "eval" /\ handle_invalid_ = "IgnorePoint"
    /\ Len(sp) = 2 /\ smin_[sp[1].cell + 1] = R(3, 2) /\ ValidEnds(2)
    /\ Len(ret) = 2 /\ ret[1] = NaN /\ ret[2] # NaN

\* ---------------------------------------------------------------------
\* C8
\* ---------------------------------------------------------------------

\* C8: eval and reverse of both classes return one output per point, in
\* input order, under either policy: output i is what the call returns for
\* point i alone.
C8_OnePerPoint ==
    op # "none" =>
        /\ Len(ret) = Len(sp)
        /\ \A i \in Points : <<ret[i]>> = LastCall(<<sp[i]>>)

\* A batch whose points take different branches: NaN for an invalid cell,
\* then an interpolated value.
C8_Witness ==
    /\ op = "reverse" /\ handle_invalid_ = "IgnorePoint"
    /\ Len(sp) = 2 /\ Len(ret) = 2
    /\ ~ ValidEnds(1) /\ ret[1] = NaN
    /\ ValidEnds(2) /\ Lt(sLOof(2), ret[2]) /\ Lt(ret[2], sHIof(2))

\* ---------------------------------------------------------------------
\* C9
\* ---------------------------------------------------------------------

\* The effective end points the object's accessors give for a cell.
Effective(cell) ==
    IF kind = "TwoPoint"
    THEN <<TwoPoint_sMin(cell, tep), TwoPoint_sMax(cell, tep)>>
    ELSE <<ThreePoint_sMin(cell, tep), ThreePoint_sDisp(cell, tep),
           ThreePoint_sMax(cell, tep)>>

\* What the stored value v stands for, given the table's end point.
Defaulted(v, fallback) ==
    IF (v = Sentinel) \/ (v = Neg(Sentinel)) THEN fallback
    ELSE IF IsSet(v) THEN v
    ELSE fallback

\* C9: the effective end point of a cell is the stored value x when
\* |x| < 1e20 and else the table's end point: tep.low for smin, tep.disp
\* for sdisp, tep.high for smax; |x| = 1e20 counts as unset.
C9_SentinelDefault ==
    (kind # "none" /\ op # "none") =>
        \A c \in 0..(Len(smin_) - 1) :
            Effective(c) =
                IF kind = "TwoPoint"
                THEN <<Defaulted(smin_[c + 1], tep.low),
                       Defaulted(smax_[c + 1], tep.high)>>
                ELSE <<Defaulted(smin_[c + 1], tep.low),
                       Defaulted(sdisp_[c + 1], tep.disp),
                       Defaulted(smax_[c + 1], tep.high)>>

\* smin at the sentinel is replaced, sdisp of magnitude 5e19 is kept (and
\* makes the cell invalid), smax above the sentinel is replaced.
C9_Witness ==
    /\ kind = "ThreePoint" /\ op = "eval" /\ tep.low # tep.high
    /\ smin_ = <<Sentinel>> /\ sdisp_ = <<(<<-1, 2, 1>>)>>
    /\ smax_ = <<(<<10, 1, 1>>)>>
    /\ Effective(0) = <<tep.low, <<-1, 2, 1>>, tep.high>>
    /\ Len(sp) = 1 /\ ret = <<sp[1].sat>>

\* ---------------------------------------------------------------------
\* C10
\* ---------------------------------------------------------------------

\* What a TwoPointScaling built from the same smin and smax returns.
AsTwoPoint(i) == TwoPoint_eval(tep, <<sp[i]>>)

\* C10 (as stated): a ThreePointScaling whose cell has sdisp = smin gives
\* for every s in [sR, sHI], and one whose cell has sdisp = smax gives for
\* every s in [sLO, sR], the eval result of the TwoPointScaling built from
\* the same smin and smax.
C10_TwoThreeAsStated ==
    ThreePointEval =>
        \A i \in Points :
            /\ (/\ sdisp_[sp[i].cell + 1] = smin_[sp[i].cell + 1]
                /\ Le(sRof(i), sp[i].sat) /\ Le(sp[i].sat, sHIof(i)))
                   => <<ret[i]>> = AsTwoPoint(i)
            /\ (/\ sdisp_[sp[i].cell + 1] = smax_[sp[i].cell + 1]
                /\ Le(sLOof(i), sp[i].sat) /\ Le(sp[i].sat, sRof(i)))
                   => <<ret[i]>> = AsTwoPoint(i)

\* C10 (amended): a ThreePointScaling whose cell has sdisp = smin gives for
\* every s in [sR, sHI] the eval result of the TwoPointScaling built from
\* the same smin and smax when the table has tep.disp = tep.low; one whose
\* cell has sdisp = smax gives it for every s in [sLO, sR] when the table
\* has tep.disp = tep.high.
C10_TwoThree ==
    ThreePointEval =>
        \A i \in Points :
            /\ (/\ sdisp_[sp[i].cell + 1] = smin_[sp[i].cell + 1]
                /\ tep.disp = tep.low
                /\ Le(sRof(i), sp[i].sat) /\ Le(sp[i].sat, sHIof(i)))
                   => <<ret[i]>> = AsTwoPoint(i)
            /\ (/\ sdisp_[sp[i].cell + 1] = smax_[sp[i].cell + 1]
                /\ tep.disp = tep.high
                /\ Le(sLOof(i), sp[i].sat) /\ Le(sp[i].sat, sRof(i)))
                   => <<ret[i]>> = AsTwoPoint(i)

\* sdisp = smin on a table with disp = low, s interpolated over [sR, sHI].
C10_Witness ==
    /\ ThreePointEval /\ Len(sp) = 1 /\ ValidEnds(1)
    /\ sdisp_[1] = smin_[1] /\ IsSet(smin_[1])
    /\ tep.disp = tep.low /\ Lt(tep.low, tep.high)
    /\ Lt(sRof(1), sp[1].sat) /\ Lt(sp[1].sat, sHIof(1))
    /\ Len(ret) = 1 /\ Lt(tep.low, ret[1]) /\ Lt(ret[1], tep.high)
    /\ ret = AsTwoPoint(1)

\* ---------------------------------------------------------------------
\* C11
\* ---------------------------------------------------------------------

TwoPointReverse == kind = "TwoPoint" /\ op = "reverse"

\* C11 (as stated): TwoPointScaling::reverse returns, for every point with
\* valid end points, sLO when s <= tep.low, sHI when s >= tep.high, and
\* sLO + ((s - tep.low)/(tep.high - tep.low)) * (sHI - sLO) when
\* tep.low < s < tep.high.
C11_ReverseAsStated ==
    TwoPointReverse =>
        \A i \in Points :
            ValidEnds(i) =>
                /\ Le(sp[i].sat, tep.low) => Out(i, sLOof(i))
                /\ Le(tep.high, sp[i].sat) => Out(i, sHIof(i))
                /\ (Lt(tep.low, sp[i].sat) /\ Lt(sp[i].sat, tep.high))
                       => Out(i, Interp(sp[i].sat, tep.low, tep.high,
                                        sLOof(i), sHIof(i)))

\* C11 (amended): TwoPointScaling::reverse returns, for every point with
\* valid end points, sLO when s <= tep.low, sHI when s >= tep.high and
\* s > tep.low, and sLO + ((s - tep.low)/(tep.high - tep.low)) * (sHI - sLO)
\* when tep.low < s < tep.high: the lower clamp is tested first.
C11_Reverse ==
    TwoPointReverse =>
        \A i \in Points :
            ValidEnds(i) =>
                /\ Le(sp[i].sat, tep.low) => Out(i, sLOof(i))
                /\ (Le(tep.high, sp[i].sat) /\ Lt(tep.low, sp[i].sat))
                       => Out(i, sHIof(i))
                /\ (Lt(tep.low, sp[i].sat) /\ Lt(sp[i].sat, tep.high))
                       => Out(i, Interp(sp[i].sat, tep.low, tep.high,
                                        sLOof(i), sHIof(i)))

\* A table saturation strictly inside the table's range mapped strictly
\* inside the cell's range.
C11_Witness ==
    /\ TwoPointReverse /\ chain = "none" /\ Len(sp) = 1 /\ ValidEnds(1)
    /\ Lt(tep.low, sp[1].sat) /\ Lt(sp[1].sat, tep.high)
    /\ Len(ret) = 1 /\ Lt(sLOof(1), ret[1]) /\ Lt(ret[1], sHIof(1))

\* ---------------------------------------------------------------------
\* C12
\* ---------------------------------------------------------------------

\* What the claim says a construction does: with arrays of one length the
\* object exists and holds them, otherwise invalid_argument is thrown and
\* there is no object.
Constructed(k, smin, sdisp, smax, sameLength) ==
    IF sameLength
    THEN /\ kind' = k /\ thrown' = "none"
         /\ smin_' = smin /\ sdisp_' = sdisp /\ smax_' = smax
    ELSE /\ kind' = "none" /\ thrown' = "invalid_argument"

\* C12: every construction of a TwoPointScaling from smin and smax of
\* different lengths, and of a ThreePointScaling from three arrays that are
\* not all of one length, throws invalid_argument and creates no object;
\* every construction from arrays of one length creates the object.
C12_SizeMismatch ==
    [][ /\ \A smin \in ArraysOf(BatchSmin, NumCells),
              smax \in ArraysOf(BatchSmax, NumCells) :
              TwoPointScaling(smin, smax) =>
                  Constructed("TwoPoint", smin, <<>>, smax,
                              Len(smin) = Len(smax))
        /\ \A smin  \in ArraysOf(BatchSmin, NumCells),
              sdisp \in ArraysOf(BatchSdisp, NumCells),
              smax  \in ArraysOf(BatchSmax, NumCells) :
              ThreePointScaling(smin, sdisp, smax) =>
                  Constructed("ThreePoint", smin, sdisp, smax,
                              Len(smin) = Len(sdisp) /\ Len(sdisp) = Len(smax))
      ]_vars

\* A construction has thrown and there is no object.
C12_Witness == thrown = "invalid_argument" /\ kind = "none"

\* ---------------------------------------------------------------------
\* C13
\* ---------------------------------------------------------------------

\* C13: no scaling object has per-cell arrays of different lengths: smin_
\* and smax_ of a TwoPointScaling, smin_, sdisp_ and smax_ of a
\* ThreePointScaling, and sdisp_, fdisp_ and fmax_ of a
\* CritSatVerticalScaling are of one length.
C13_LengthsValidated ==
    /\ (kind = "TwoPoint") => Len(smin_) = Len(smax_)
    /\ (kind = "ThreePoint") =>
           (Len(smin_) = Len(sdisp_) /\ Len(sdisp_) = Len(smax_))
    /\ (kind = "CritSatVertical") =>
           (Len(sdisp_) = Len(fdisp_) /\ Len(fdisp_) = Len(fmax_))

\* ---------------------------------------------------------------------
\* C14
\* ---------------------------------------------------------------------

\* A call of vertScale that returned without indexing past a vector's end.
PureVertScale == kind = "PureVertical" /\ op = "vertScale" /\ ended = "returned"

\* C14 (as stated): PureVerticalScaling::vertScale returns, for every point i,
\* val[i] * (fmax_[cell_i] / f.max.val), and val[i] itself whenever
\* fmax_[cell_i] = f.max.val.
C14_PureLinearAsStated ==
    PureVertScale =>
        \A i \in Points :
            LET fm == fmax_[sp[i].cell + 1]
            IN  /\ Out(i, Mul(val[i], Div(fm, f.max.val)))
                /\ (fm = f.max.val) => Out(i, val[i])

\* C14 (amended): PureVerticalScaling::vertScale returns, for every point i,
\* val[i] * (fmax_[cell_i] / f.max.val), and val[i] itself whenever
\* fmax_[cell_i] = f.max.val and that value is finite and not zero.
C14_PureLinear ==
    PureVertScale =>
        \A i \in Points :
            LET fm == fmax_[sp[i].cell + 1]
            IN  /\ Out(i, Mul(val[i], Div(fm, f.max.val)))
                /\ (fm = f.max.val /\ IsFinite(fm) /\ fm # Zero)
                       => Out(i, val[i])

\* A value rescaled by a ratio other than one.
C14_Witness ==
    /\ PureVertScale /\ Len(sp) = 1 /\ Len(ret) = 1
    /\ fmax_[1] = R(9, 10) /\ f.max.val = R(1, 2) /\ val[1] = R(1, 4)
    /\ ret[1] = R(9, 20)

\* ---------------------------------------------------------------------
\* C15
\* ---------------------------------------------------------------------

\* A call of vertScale that returned without indexing past a vector's end.
CritSatVertScale ==
    kind = "CritSatVertical" /\ op = "vertScale" /\ ended = "returned"

\* The per-cell values of point i's cell.
srOf(i) == sdisp_[sp[i].cell + 1]
frOf(i) == fdisp_[sp[i].cell + 1]
fmOf(i) == fmax_[sp[i].cell + 1]

\* C15: CritSatVerticalScaling::vertScale returns
\* val[i] * (fdisp_[cell_i] / f.disp.val) for every point i with
\* s <= sdisp_[cell_i], whatever the table's right segment is.
C15_LeftSegment ==
    CritSatVertScale =>
        \A i \in Points :
            Le(sp[i].sat, srOf(i))
                => Out(i, Mul(val[i], Div(frOf(i), f.disp.val)))

\* A point at s = sdisp_[cell] rescaled on a table whose right segment has
\* no range of values.
C15_Witness ==
    /\ CritSatVertScale /\ Len(sp) = 1 /\ Len(ret) = 1
    /\ sp[1].sat = sdisp_[1]
    /\ f.max.val = f.disp.val /\ f.disp.val = R(1, 2)
    /\ fdisp_[1] = R(2, 5) /\ fmax_[1] = R(9, 10) /\ val[1] = R(1, 4)
    /\ ret[1] = R(1, 5)

\* ---------------------------------------------------------------------
\* C16
\* ---------------------------------------------------------------------

\* C16: on a table with f.max.val > f.disp.val, CritSatVerticalScaling::
\* vertScale returns fdisp_[cell_i] + t * (fmax_[cell_i] - fdisp_[cell_i])
\* with t = (val[i] - f.disp.val) / (f.max.val - f.disp.val) for every
\* point i with s > sdisp_[cell_i], whatever the table's saturations are.
C16_ValueRatio ==
    CritSatVertScale =>
        \A i \in Points :
            (Lt(f.disp.val, f.max.val) /\ Lt(srOf(i), sp[i].sat))
                => Out(i, Interp(val[i], f.disp.val, f.max.val,
                                 frOf(i), fmOf(i)))

\* A point right of sdisp_[cell] rescaled by the ratio of values on a table
\* whose displacing saturation exceeds its maximum saturation.
C16_Witness ==
    /\ CritSatVertScale /\ Len(sp) = 1 /\ Len(ret) = 1
    /\ Lt(sdisp_[1], sp[1].sat)
    /\ Lt(f.max.sat, f.disp.sat)
    /\ f.disp.val = R(1, 2) /\ f.max.val = One /\ val[1] = R(3, 4)
    /\ fdisp_[1] = R(2, 5) /\ fmax_[1] = R(9, 10)
    /\ ret[1] = R(13, 20)

\* ---------------------------------------------------------------------
\* C17
\* ---------------------------------------------------------------------

\* The invariant of FunctionValues that vertScale asserts.
FunctionValuesInvariant ==
    Le(f.disp.val, f.max.val) /\ Le(f.disp.sat, f.max.sat)

\* C17: on a table that satisfies the invariant of FunctionValues, with
\* f.max.val = f.disp.val and f.disp.sat different from f.max.sat,
\* CritSatVerticalScaling::vertScale returns
\* fdisp_[cell_i] + t * (fmax_[cell_i] - fdisp_[cell_i]) with
\* t = (s - f.disp.sat) / (f.max.sat - f.disp.sat) for every point i with
\* s > sdisp_[cell_i].
C17_SaturationRatio ==
    CritSatVertScale =>
        \A i \in Points :
            (/\ FunctionValuesInvariant
             /\ f.max.val = f.disp.val
             /\ f.disp.sat # f.max.sat
             /\ Lt(srOf(i), sp[i].sat))
                => Out(i, Interp(sp[i].sat, f.disp.sat, f.max.sat,
                                 frOf(i), fmOf(i)))

\* ---------------------------------------------------------------------
\* C18
\* ---------------------------------------------------------------------

\* C18: on a table with f.max.val = f.disp.val and f.disp.sat = f.max.sat,
\* CritSatVerticalScaling::vertScale returns fmax_[cell_i] for every point i
\* with s > sdisp_[cell_i], whatever val[i] is.
C18_FullyDegenerate ==
    CritSatVertScale =>
        \A i \in Points :
            (/\ f.max.val = f.disp.val
             /\ f.disp.sat = f.max.sat
             /\ Lt(srOf(i), sp[i].sat))
                => Out(i, fmOf(i))

\* A point right of sdisp_[cell] on a fully degenerate table, whose value
\* differs from the cell's fmax_ and fdisp_.
C18_Witness ==
    /\ CritSatVertScale /\ Len(sp) = 1 /\ Len(ret) = 1
    /\ f.max.val = f.disp.val /\ f.disp.sat = f.max.sat
    /\ Lt(sdisp_[1], sp[1].sat)
    /\ fmax_[1] = R(9, 10) /\ fdisp_[1] = R(2, 5) /\ val[1] = R(1, 4)
    /\ ret[1] = R(9, 10)

\* ---------------------------------------------------------------------
\* C19
\* ---------------------------------------------------------------------

\* C19: on every table that satisfies the invariant of FunctionValues, with
\* finite per-cell values and finite input values,
\* CritSatVerticalScaling::vertScale returns a finite value for every point.
C19_FiniteResult ==
    (/\ CritSatVertScale
     /\ FunctionValuesInvariant
     /\ \A c \in DOMAIN fmax_ :
            IsFinite(sdisp_[c]) /\ IsFinite(fdisp_[c]) /\ IsFinite(fmax_[c])
     /\ \A i \in DOMAIN val : IsFinite(val[i]))
        => \A i \in Points : IsFinite(ret[i])

\* ---------------------------------------------------------------------
\* C20
\* ---------------------------------------------------------------------

\* C20: a call of PureVerticalScaling::vertScale with points and values of
\* different sizes ends in a failed assertion, and a call with equal sizes
\* returns a vector of that size.
C20_FailsOnlyOnSizeMismatch ==
    (kind = "PureVertical" /\ op = "vertScale") =>
        /\ (Len(sp) # Len(val)) => ended = "assertion"
        /\ (Len(sp) = Len(val)) => (ended = "returned" /\ Len(ret) = Len(sp))

\* ---------------------------------------------------------------------
\* C26
\* ---------------------------------------------------------------------

\* C26: no division of eval or reverse, of either class, has a zero
\* denominator at a point whose resolved end points are all in [0, 1]: a
\* quotient by zero is infinite or NaN and stays so through the products
\* and sums that follow it, so every such output of a finite saturation is
\* a finite number.
C26_NoZeroDenominator ==
    (kind \in Horizontal /\ op \in {"eval", "reverse"}) =>
        \A i \in Points :
            (ValidEnds(i) /\ IsFinite(sp[i].sat)) => IsFinite(ret[i])

\* eval at a saturation equal to all three resolved end points of the cell.
C26_Witness ==
    /\ ThreePointEval /\ Len(sp) = 1 /\ ValidEnds(1)
    /\ sLOof(1) = sp[1].sat /\ sRof(1) = sp[1].sat /\ sHIof(1) = sp[1].sat
    /\ Len(ret) = 1 /\ IsFinite(ret[1])

\* ---------------------------------------------------------------------
\* C27
\* ---------------------------------------------------------------------

\* C27: for table end points low <= disp <= high and resolved end points
\* all in [0, 1], in any order, every output of TwoPointScaling::eval and
\* of ThreePointScaling::eval lies in [tep.low, tep.high].
C27_EvalRange ==
    (kind \in Horizontal /\ op = "eval"
        /\ Le(tep.low, tep.disp) /\ Le(tep.disp, tep.high)) =>
        \A i \in Points :
            ValidEnds(i) => (Le(tep.low, ret[i]) /\ Le(ret[i], tep.high))

\* A cell with sR below sLO and a saturation between sLO and sHI, scaled to
\* a value strictly inside the table's interval.
C27_Witness ==
    /\ ThreePointEval /\ Len(sp) = 1 /\ ValidEnds(1)
    /\ Lt(sRof(1), sLOof(1)) /\ Lt(sLOof(1), sp[1].sat)
    /\ Lt(sp[1].sat, sHIof(1))
    /\ Len(ret) = 1 /\ Lt(tep.low, ret[1]) /\ Lt(ret[1], tep.high)

\* ---------------------------------------------------------------------
\* C29
\* ---------------------------------------------------------------------

\* Every stored end point of point i's cell is unset.
AllUnset(i) ==
    /\ ~ IsSet(smin_[sp[i].cell + 1])
    /\ ~ IsSet(smax_[sp[i].cell + 1])
    /\ (kind = "ThreePoint") => ~ IsSet(sdisp_[sp[i].cell + 1])

Meaningless(o) ==
    \/ o.curve = "Relperm" /\ o.thisPh = "Vapour" /\ o.subSys = "OilWater"
    \/ o.curve = "Relperm" /\ o.thisPh = "Aqua" /\ o.subSys = "OilGas"
    \/ o.curve = "CapPress" /\ o.thisPh = "Liquid"

\* The messages of the exceptions that reject a request as such, and not
\* the arrays that came with it.
Rejections ==
    {"Cannot Create an EPS for Gas Relperm in an Oil/Water System",
     "Cannot Create an EPS for Water Relperm in an Oil/Gas System",
     "Creating Capillary Pressure EPS as a Function of Oil Saturation is not Supported",
     "Cannot Create a Three-Point EPS for Gas Relperm in an Oil/Water System",
     "Cannot Create a Three-Point EPS for Water Relperm in an Oil/Gas System",
     "No Capillary Pressure Function for Oil",
     "Void Request for Unscaled Water Saturation End-Points in Oil-Gas System",
     "Void Request for Unscaled Gas Saturation End-Points in Oil-Water System",
     "Cannot Create Vertical Scaling for Water Relperm in an Oil/Gas System",
     "Cannot Create Vertical Scaling for Gas Relperm in an Oil/Water System",
     "Creating Capillary Pressure Vertical Scaling as a Function of Oil Saturation is not Supported",
     "Cannot Create Critical Saturation Vertical Scaling for Gas Relperm in an Oil/Water System",
     "Cannot Create Critical Saturation Vertical Scaling for Water Relperm in an Oil/Gas System"}

\* C21: every factory function throws std::invalid_argument for a request
\* without physical meaning, whichever family it dispatches to and
\* whatever arrays the INIT file holds, and rejects no other combination
\* of phase, sub-system and curve for that reason.
C21_MeaninglessRejected ==
    (made.fn # "none") =>
        /\ Meaningless(opt) => (made.what \in Rejections /\ kind = "none")
        /\ (~ Meaningless(opt)) => (made.what \notin Rejections)

\* Vertical::fromECLOutput rejects gas relative permeability in the
\* oil-water system on the critical-saturation path, KRGR being present.
C21_Witness ==
    /\ made.fn = "Vertical::fromECLOutput"
    /\ opt.curve = "Relperm" /\ opt.thisPh = "Vapour"
    /\ opt.subSys = "OilWater"
    /\ init.kw["KRGR"] # <<>>
    /\ thrown = "invalid_argument"
    /\ made.what = "Cannot Create Critical Saturation Vertical Scaling for Gas Relperm in an Oil/Water System"

\* ---------------------------------------------------------------------
\* C22
\* ---------------------------------------------------------------------

\* The arrays a horizontal factory path cannot do without: the two end
\* points of the phase or, for oil, the critical oil saturation and the
\* connate saturation of the other phase of the sub-system; for three-point
\* oil scaling the critical saturation of that phase as well; for capillary
\* pressure the maximum and the connate saturation, the latter from the
\* keyword of the capillary pressure when the INIT file has it.
RequiredArrays(d, o) ==
    IF o.curve = "CapPress"
    THEN IF o.thisPh = "Vapour"
         THEN {d.kw["SGU"],
               IF d.kw["SGLPC"] # <<>> THEN d.kw["SGLPC"] ELSE d.kw["SGL"]}
         ELSE {d.kw["SWU"],
               IF d.kw["SWLPC"] # <<>> THEN d.kw["SWLPC"] ELSE d.kw["SWL"]}
    ELSE CASE o.thisPh = "Aqua"   -> {d.kw["SWCR"], d.kw["SWU"]}
           [] o.thisPh = "Vapour" -> {d.kw["SGCR"], d.kw["SGU"]}
           [] o.thisPh = "Liquid" /\ o.subSys = "OilWater" ->
                  {d.kw["SOWCR"], d.kw["SWL"]} \cup
                  (IF o.use3PtScaling THEN {d.kw["SWCR"]} ELSE {})
           [] o.thisPh = "Liquid" /\ o.subSys = "OilGas" ->
                  {d.kw["SOGCR"], d.kw["SGL"]} \cup
                  (IF o.use3PtScaling THEN {d.kw["SGCR"]} ELSE {})

\* C22: on every horizontal factory path (two-point relative permeability
\* of gas, oil in gas, oil in water and water, two-point capillary
\* pressure, three-point relative permeability) the call throws when a
\* required array is absent or its length is not the number of active
\* cells.
C22_ArraysChecked ==
    (made.fn = "Horizontal::fromECLOutput" /\ ~ Meaningless(opt)) =>
        ((\E a \in RequiredArrays(init, opt) : Len(a) # numCells)
            => (made.what # "" /\ kind = "none"))

\* The two-point path of the relative permeability of water.
TwoPointWater(o) ==
    o.curve = "Relperm" /\ o.thisPh = "Aqua" /\ ~ o.use3PtScaling

\* On every path but that one the call throws when a required array is
\* absent or of another length than the number of active cells, and on that
\* one when SWCR or SWU is absent or their lengths differ.
C22_OtherPaths ==
    (made.fn = "Horizontal::fromECLOutput" /\ ~ Meaningless(opt)) =>
        /\ (~ TwoPointWater(opt)) => C22_ArraysChecked
        /\ (TwoPointWater(opt)
               /\ (\/ init.kw["SWCR"] = <<>> \/ init.kw["SWU"] = <<>>
                   \/ Len(init.kw["SWCR"]) # Len(init.kw["SWU"])))
               => (made.what # "" /\ kind = "none")

\* ---------------------------------------------------------------------
\* C24
\* ---------------------------------------------------------------------

\* The rule of the claim: three-point for relative permeability with
\* use3PtScaling set, two-point otherwise.
FamilyRule(o) ==
    IF o.curve = "Relperm" /\ o.use3PtScaling THEN "ThreePoint"
    ELSE "TwoPoint"

\* C24: the object Horizontal::fromECLOutput returns is, until it is
\* destroyed, a ThreePointScaling exactly when the curve is relative
\* permeability and use3PtScaling is set, and a TwoPointScaling otherwise;
\* the end points Horizontal::unscaledEndPoints returns are made by the
\* family of the same rule, those of the two-point family with disp equal
\* to low.
C24_FamilySelection ==
    /\ (made.fn = "Horizontal::fromECLOutput" /\ made.what = "")
           => /\ made.via = FamilyRule(opt)
              /\ kind \in {"none", FamilyRule(opt)}
    /\ (made.fn = "Horizontal::unscaledEndPoints" /\ made.what = "")
           => /\ made.via = FamilyRule(opt)
              /\ (FamilyRule(opt) = "TwoPoint")
                     => \A i \in DOMAIN made.uep :
                            made.uep[i].disp = made.uep[i].low

\* A two-point object made for capillary pressure with use3PtScaling set.
C24_Witness ==
    /\ made.fn = "Horizontal::fromECLOutput"
    /\ opt.curve = "CapPress" /\ opt.use3PtScaling
    /\ kind = "TwoPoint" /\ Len(smin_) = numCells

\* Three-point end points with the displacing saturation above the
\* minimum, returned for relative permeability with use3PtScaling set.
C24_WitnessEndPoints ==
    /\ made.fn = "Horizontal::unscaledEndPoints"
    /\ opt.curve = "Relperm" /\ opt.use3PtScaling
    /\ made.via = "ThreePoint" /\ Len(made.uep) = NumRegions
    /\ Lt(made.uep[1].low, made.uep[1].disp)

\* ---------------------------------------------------------------------
\* C28
\* ---------------------------------------------------------------------

\* The object is the CritSatVerticalScaling that the last call of
\* Vertical::fromECLOutput returned.
CritSatMade ==
    /\ made.fn = "Vertical::fromECLOutput" /\ made.what = ""
    /\ kind = "CritSatVertical"

\* fdisp as read from keyword k of the call's INIT file, with the table
\* values of the call in the defaulted cells.
FdispFrom(k) == gridDefaultedVector(init, k, dispVals(made.fvals), Unconverted)

\* C28: the keyword whose presence makes Vertical::fromECLOutput return a
\* CritSatVerticalScaling is the keyword from which the object's fdisp_ is
\* read, for water, gas, oil in oil-gas and oil in oil-water.
C28_SameKeyword ==
    CritSatMade =>
        /\ haveScaledRelPermAtCritSat(init, opt.thisPh, opt.subSys)
        /\ fdisp_ = FdispFrom(haveScaledRelPermAtCritSatKeyword(opt.thisPh,
                                                                opt.subSys))

\* The same for water and gas only.
C28_WaterAndGas ==
    (opt.thisPh \in {"Aqua", "Vapour"}) => C28_SameKeyword

\* For oil the object's fdisp_ is read from KRORG in the oil-gas system and
\* from KRORW in the oil-water system.
C28_Oil ==
    (CritSatMade /\ opt.thisPh = "Liquid") =>
        fdisp_ = FdispFrom(IF opt.subSys = "OilGas" THEN "KRORG" ELSE "KRORW")

\* ---------------------------------------------------------------------
\* C30
\* ---------------------------------------------------------------------

\* The class of the object Vertical::fromECLOutput returns for the INIT
\* file, the options and the end points of the last factory call.
SelectedFamily ==
    { Vertical_fromECLOutput(init, opt, ep, fvals).kind :
          fvals \in FuncValVectors }

\* The nodes Vertical::unscaledFunctionValues evaluates for the INIT file,
\* the options and the end points of the last factory call.
EvaluatedNodes == Vertical_unscaledFunctionValues(init, ep, opt).nodes

\* C30: for every option set and every presence of the keywords,
\* Vertical::unscaledFunctionValues evaluates the displacing node and the
\* maximum node exactly when Vertical::fromECLOutput returns a
\* CritSatVerticalScaling, which is for relative permeability with the
\* keyword present, and the maximum node alone, leaving the displacing node
\* at zero, when it returns a PureVerticalScaling.
C30_SameFamily ==
    /\ (made.fn = "Vertical::unscaledFunctionValues" /\ made.what = "") =>
           /\ (made.nodes = {"disp", "max"})
                  <=> (SelectedFamily = {"CritSatVertical"})
           /\ (made.nodes = {"max"}) <=> (SelectedFamily = {"PureVertical"})
           /\ (made.nodes = {"max"}) =>
                  \A i \in DOMAIN made.fvals :
                      made.fvals[i].disp = [sat |-> Zero, val |-> Zero]
    /\ (made.fn = "Vertical::fromECLOutput" /\ made.what = "") =>
           /\ (made.via = "CritSatVertical")
                  <=> (EvaluatedNodes = {"disp", "max"})
           /\ (made.via = "PureVertical") <=> (EvaluatedNodes = {"max"})
           /\ (made.via = "CritSatVertical")
                  <=> (/\ opt.curve = "Relperm"
                       /\ haveScaledRelPermAtCritSat(init, opt.thisPh,
                                                     opt.subSys))

\* Function values with the displacing node evaluated, for the relative
\* permeability of water with KRWR present.
C30_Witness ==
    /\ made.fn = "Vertical::unscaledFunctionValues"
    /\ opt.curve = "Relperm" /\ opt.thisPh = "Aqua"
    /\ init.kw["KRWR"] # <<>>
    /\ made.nodes = {"disp", "max"} /\ Len(made.fvals) = NumRegions
    /\ Gt(made.fvals[1].disp.val, Zero)
    /\ SelectedFamily = {"CritSatVertical"}


\* ---------------------------------------------------------------------
\* C25
\* ---------------------------------------------------------------------

\* The object of the call holds an Impl that the second object gave it in
\* a move assignment.
Taken == other.by = "moved_from" /\ kind \in Horizontal

\* C25: every TwoPointScaling and ThreePointScaling object, whether made by
\* a constructor, by Horizontal::fromECLOutput, or by a copy, a move, an
\* assignment or a clone of such an object, has the policy UseUnscaled, and
\* no eval or reverse call returns NaN at a point whose end points are
\* invalid: the result there is the saturation passed in.
C25_AlwaysUseUnscaled ==
    /\ kind \in Horizontal => handle_invalid_ = "UseUnscaled"
    /\ other.kind \in Horizontal => other.handle_invalid_ = "UseUnscaled"
    /\ op \in {"eval", "reverse"} =>
           \A i \in Points :
               ~ ValidEnds(i) => /\ i \in DOMAIN ret
                                /\ ~ IsNaN(ret[i])
                                /\ ret[i] = sp[i].sat

\* An eval call at an invalid end point on an object that took its Impl
\* from the second object by move assignment.
C25_Witness ==
    /\ Taken /\ op = "eval"
    /\ \E i \in Points : ~ ValidEnds(i) /\ ret[i] = sp[i].sat


\* ---------------------------------------------------------------------
\* C23
\* ---------------------------------------------------------------------

\* What call c returns when it runs with no other call.
Alone(c) ==
    IF c.op = "eval" THEN eval(c.tep, c.sp)
    ELSE IF c.op = "reverse" THEN reverse(c.tep, c.sp)
    ELSE vertScale(c.f, c.sp, c.val, Zero)

AsAlone == \A n \in DOMAIN threads :
               HasReturned(threads[n]) => threads[n].out = Alone(threads[n])

\* C23: while calls of eval, reverse or vertScale run on an object, in any
\* interleaving of their turns, the arrays and the policy of the object do
\* not change, and every call that has returned holds the result the same
\* call gives when it runs alone.
C23_ReadOnly ==
    /\ []AsAlone
    /\ [][threads # <<>> =>
            UNCHANGED <<kind, smin_, sdisp_, smax_, fdisp_, fmax_,
                        handle_invalid_>>]_vars

\* Two calls with different tables on a two-point object: the second has
\* returned while the first is inside its loop.
C23_Witness ==
    /\ kind = "TwoPoint" /\ Len(threads) = 2
    /\ threads[1].op = "eval" /\ threads[2].op = "eval"
    /\ threads[1].tep # threads[2].tep
    /\ threads[1].i = 2 /\ ~ HasReturned(threads[1])
    /\ HasReturned(threads[2]) /\ threads[2].out = Alone(threads[2])

\* Two calls of vertScale: the first has returned, the second has not.
C23_WitnessVertical ==
    /\ kind = "CritSatVertical" /\ Len(threads) = 2
    /\ HasReturned(threads[1]) /\ threads[1].out = Alone(threads[1])
    /\ threads[1].out # threads[1].val
    /\ ~ HasReturned(threads[2])

====
